---- MODULE Spec2Model ----
(***************************************************************************)
(* A model of csv-js: the Configurable base class, the Parser (row         *)
(* tokenizer over a pull-style character source) and the Writer (column    *)
(* and row serializer).  Text is a sequence of one-character strings; a    *)
(* configured separator or quote is one character or the empty string "".  *)
(***************************************************************************)
EXTENDS Integers, Sequences, FiniteSets, TLC

VARIABLES
    parser,   \* the Parser instance's configuration (separator, newline, quote, quoteAll)
    writer,   \* the Writer instance's configuration
    source,   \* Parser.source: the attached character source, with its position
    call,     \* the Parser method in progress: "none", "nextRow" or "rows"
    loc,      \* the locals of the nextRow call in progress
    acc,      \* the local array `rows` of the rows() call in progress
    ret,      \* the value returned by the last completed Parser call
    input,    \* the caller's array of rows handed to the Writer
    data,     \* the text returned by the last Writer.write call, once written
    opts,     \* the options object of the Writer's last configure call
    before,   \* the Writer's configuration before that call
    iter,     \* the lazy iterator returned by Writer.rows or Writer.iterate
    out,      \* the values the caller has pulled from that iterator
    seen,     \* what the caller has been handed by the Parser since parse
    stream    \* the NodeJS stream under the source: what has yet to arrive, what was read

vars == <<parser, writer, source, call, loc, acc, ret, input, data, opts, before,
          iter, out, seen, stream>>

(***************************************************************************)
(* Bounds of the model.                                                    *)
(***************************************************************************)
MaxDocLen == 4    \* characters of a document handed to Parser.parse
MaxRows == 2      \* rows of the caller's array handed to the Writer
MaxCells == 3     \* columns of all the rows of the array together
MaxChars == 2     \* characters of all the columns of the array together
MaxChunks == 1    \* chunks of a readable stream
MaxPending == 2   \* chunks that arrive at a stream after it was attached

(***************************************************************************)
(* Characters and values of the language runtime.                          *)
(***************************************************************************)
CR == "\r"
LF == "\n"
Undefined == "undefined"

\* A JavaScript string of at most one character as a text of the model.
Str(c) == IF c = "" THEN <<>> ELSE <<c>>

\* String.prototype.indexOf(c) >= 0 for a one-character c.
Contains(s, c) == \E k \in 1..Len(s) : s[k] = c

\* Sequences over S of length at most n.
SeqUpTo(S, n) == UNION {[1..k -> S] : k \in 0..n}

\* The texts ts one after the other.
RECURSIVE Concat(_)
Concat(ts) == IF ts = <<>> THEN <<>> ELSE Head(ts) \o Concat(Tail(ts))

(***************************************************************************)
(* Configuration (common.ts).                                              *)
(***************************************************************************)
DefaultOptions ==
    [separator |-> ",", newline |-> <<CR, LF>>, quote |-> "\"", quoteAll |-> FALSE]

OptionKeys == {"separator", "newline", "quote", "quoteAll"}

\* The empty value a falsy field is coerced to (`|| ""`, `|| false`).
Falsy(k) == IF k = "quoteAll" THEN FALSE ELSE IF k = "newline" THEN <<>> ELSE ""

\* configure taking a field from the options only when its value there is
\* defined, and from the defaults otherwise.
configureDefinedOnly(options) ==
    [k \in OptionKeys |->
        IF k \in options.has /\ k \in DOMAIN options.val
        THEN options.val[k]
        ELSE DefaultOptions[k]]

\* Configurable.configure.  An options object is a record of has, the set of
\* keys present in it, and val, the values of the keys whose value is defined
\* (a key in has and not in DOMAIN val holds undefined).  Each field is taken
\* from the options when its key is present, otherwise from the defaults, and
\* an undefined or empty result is coerced to the empty value.
configure(options) ==
    [k \in OptionKeys |->
        IF k \in options.has
        THEN IF k \in DOMAIN options.val THEN options.val[k] ELSE Falsy(k)
        ELSE DefaultOptions[k]]

\* The options object {k: v}, and the absent options object.
Option(k, v) == [has |-> {k}, val |-> [x \in {k} |-> v]]
NoOptions == [has |-> {}, val |-> <<>>]

\* The characters a document is written in under a configuration: plain text,
\* the two terminator characters, and the configured separator and quote (the
\* default ones where the configuration has none).
Alphabet(cfg) ==
    {"a", CR, LF,
     IF cfg.separator = "" THEN "," ELSE cfg.separator,
     IF cfg.quote = "" THEN "\"" ELSE cfg.quote}

(***************************************************************************)
(* Writer (writer.ts).  A column value is a text, so String(value) is the  *)
(* value itself.                                                           *)
(***************************************************************************)
\* EscapeFrom without the separator test.
RECURSIVE EscapeFromNoSeparator(_, _, _, _, _)
EscapeFromNoSeparator(cfg, unescaped, i, escaped, needsQuotes) ==
    IF i > Len(unescaped)
    THEN [escaped |-> escaped, needsQuotes |-> needsQuotes]
    ELSE IF unescaped[i] = cfg.quote
    THEN EscapeFromNoSeparator(cfg, unescaped, i + 1,
                    escaped \o Str(cfg.quote) \o Str(cfg.quote), TRUE)
    ELSE EscapeFromNoSeparator(cfg, unescaped, i + 1, Append(escaped, unescaped[i]),
                    needsQuotes \/ Contains(cfg.newline, unescaped[i]))

\* The loop of writeColumn from index i (1-based) on: the escaped copy and the
\* needsQuotes flag at its end.
RECURSIVE EscapeFrom(_, _, _, _, _)
EscapeFrom(cfg, unescaped, i, escaped, needsQuotes) ==
    IF i > Len(unescaped)
    THEN [escaped |-> escaped, needsQuotes |-> needsQuotes]
    ELSE IF unescaped[i] = cfg.quote
    THEN EscapeFrom(cfg, unescaped, i + 1,
                    escaped \o Str(cfg.quote) \o Str(cfg.quote), TRUE)
    ELSE EscapeFrom(cfg, unescaped, i + 1, Append(escaped, unescaped[i]),
                    needsQuotes \/ Contains(cfg.newline, unescaped[i])
                                \/ unescaped[i] = cfg.separator)

\* writeColumn wrapping the unescaped text instead of the escaped copy.
writeColumnUnescaped(cfg, value) ==
    LET e == EscapeFrom(cfg, value, 1, <<>>, cfg.quoteAll) IN
    IF e.needsQuotes
    THEN Str(cfg.quote) \o value \o Str(cfg.quote)
    ELSE value

\* writeColumn without regard to quoteAll.
writeColumnIgnoresQuoteAll(cfg, value) ==
    LET e == EscapeFrom(cfg, value, 1, <<>>, FALSE) IN
    IF e.needsQuotes
    THEN Str(cfg.quote) \o e.escaped \o Str(cfg.quote)
    ELSE value

\* writeColumn wrapping the empty string in quotes whatever quoteAll is.
writeColumnQuotesEmpty(cfg, value) ==
    LET e == EscapeFrom(cfg, value, 1, <<>>, cfg.quoteAll \/ value = <<>>) IN
    IF e.needsQuotes
    THEN Str(cfg.quote) \o e.escaped \o Str(cfg.quote)
    ELSE value

\* Writer.writeColumn.
writeColumn(cfg, value) ==
    LET e == EscapeFrom(cfg, value, 1, <<>>, cfg.quoteAll) IN
    IF e.needsQuotes
    THEN Str(cfg.quote) \o e.escaped \o Str(cfg.quote)
    ELSE value

\* RowFrom with the separator written after every column.
RECURSIVE RowFromSeparatorAfter(_, _, _, _, _)
RowFromSeparatorAfter(cfg, row, i, text, initial) ==
    IF i > Len(row)
    THEN text
    ELSE RowFromSeparatorAfter(cfg, row, i + 1,
                 text \o writeColumn(cfg, row[i]) \o Str(cfg.separator), FALSE)

\* The loop of Writer.writeRow from column i on.
RECURSIVE RowFrom(_, _, _, _, _)
RowFrom(cfg, row, i, text, initial) ==
    IF i > Len(row)
    THEN text
    ELSE RowFrom(cfg, row, i + 1,
                 (IF initial THEN text ELSE text \o Str(cfg.separator))
                     \o writeColumn(cfg, row[i]),
                 FALSE)

\* writeRow with the default terminator written in place of an empty one.
writeRowDefaultTerminator(cfg, row) ==
    RowFrom(cfg, row, 1, <<>>, TRUE)
        \o (IF cfg.newline = <<>> THEN DefaultOptions.newline ELSE cfg.newline)

\* Writer.writeRow of a row that is an array of columns.
writeRow(cfg, row) == RowFrom(cfg, row, 1, <<>>, TRUE) \o cfg.newline

\* A row argument of writeRow: an array of columns, or the missing row (null
\* or undefined).
MissingRow == [missing |-> TRUE, columns |-> <<>>]
ArrayRow(columns) == [missing |-> FALSE, columns |-> columns]

\* Writer.writeRow of a row argument that may be missing.
writeRowArgument(cfg, row) ==
    IF row.missing THEN cfg.newline ELSE writeRow(cfg, row.columns)

\* WriteFrom with the terminator written between the rows only.
RECURSIVE WriteFromJoined(_, _, _, _)
WriteFromJoined(cfg, rs, i, text) ==
    IF i > Len(rs)
    THEN text
    ELSE WriteFromJoined(cfg, rs, i + 1,
             text \o RowFrom(cfg, rs[i], 1, <<>>, TRUE)
                  \o (IF i < Len(rs) THEN cfg.newline ELSE <<>>))

\* The loop of Writer.write from row i on.
RECURSIVE WriteFrom(_, _, _, _)
WriteFrom(cfg, rs, i, text) ==
    IF i > Len(rs)
    THEN text
    ELSE WriteFrom(cfg, rs, i + 1, text \o writeRow(cfg, rs[i]))

\* Writer.write.
write(cfg, rs) == WriteFrom(cfg, rs, 1, <<>>)

(***************************************************************************)
(* The lazy writers (writer.ts).  The rows iterator of the caller's array  *)
(* is the number pos of rows pulled from it.                               *)
(***************************************************************************)
\* new WriterRowIterator(rows, writer) and new WriterCharacterIterator(rows,
\* writer), as Writer.rows and Writer.iterate return them.
WriterRowIterator == [kind |-> "rows", pos |-> 0, buffer |-> <<>>, index |-> 0]
WriterCharacterIterator == [kind |-> "chars", pos |-> 0, buffer |-> <<>>, index |-> 0]

\* WriterRowIterator.next(): the iterator result and the iterator afterwards.
WriterRowIteratorNext(cfg, rs, it) ==
    IF it.pos >= Len(rs)
    THEN [done |-> TRUE, value |-> <<>>, it |-> it]
    ELSE [done |-> FALSE, value |-> writeRow(cfg, rs[it.pos + 1]),
          it |-> [it EXCEPT !.pos = @ + 1]]

\* WriterCharacterIterator.next() reporting done when a row serializes to the
\* empty string, instead of going on to the next row.
WriterCharacterIteratorNextStopsAtEmpty(cfg, rs, it) ==
    IF it.buffer = <<>> \/ it.index >= Len(it.buffer)
    THEN IF it.pos >= Len(rs)
         THEN [done |-> TRUE, value |-> "", it |-> it]
         ELSE LET b == [it EXCEPT !.pos = @ + 1, !.index = 1,
                                  !.buffer = writeRow(cfg, rs[it.pos + 1])]
              IN  IF Len(b.buffer) = 0
                  THEN [done |-> TRUE, value |-> "", it |-> b]
                  ELSE [done |-> FALSE, value |-> b.buffer[1], it |-> b]
    ELSE [done |-> FALSE, value |-> it.buffer[it.index + 1],
          it |-> [it EXCEPT !.index = @ + 1]]

\* WriterCharacterIterator.next() handing out the empty string for a row that
\* serializes to it, instead of going on to the next row.
WriterCharacterIteratorNextEmptyValue(cfg, rs, it) ==
    IF it.buffer = <<>> \/ it.index >= Len(it.buffer)
    THEN IF it.pos >= Len(rs)
         THEN [done |-> TRUE, value |-> "", it |-> it]
         ELSE LET b == [it EXCEPT !.pos = @ + 1, !.index = 1,
                                  !.buffer = writeRow(cfg, rs[it.pos + 1])]
              IN  IF Len(b.buffer) = 0
                  THEN [done |-> FALSE, value |-> "", it |-> b]
                  ELSE [done |-> FALSE, value |-> b.buffer[1], it |-> b]
    ELSE [done |-> FALSE, value |-> it.buffer[it.index + 1],
          it |-> [it EXCEPT !.index = @ + 1]]

\* WriterCharacterIterator.next() serializing the row it is in again at every
\* call, under the configuration the Writer has by then.
RECURSIVE WriterCharacterIteratorNextReserializes(_, _, _)
WriterCharacterIteratorNextReserializes(cfg, rs, it) ==
    IF it.buffer = <<>> \/ it.index >= Len(it.buffer)
    THEN IF it.pos >= Len(rs)
         THEN [done |-> TRUE, value |-> "", it |-> it]
         ELSE LET b == [it EXCEPT !.pos = @ + 1, !.index = 1,
                                  !.buffer = writeRow(cfg, rs[it.pos + 1])]
              IN  IF Len(b.buffer) = 0
                  THEN WriterCharacterIteratorNextReserializes(cfg, rs, b)
                  ELSE [done |-> FALSE, value |-> b.buffer[1], it |-> b]
    ELSE LET again == writeRow(cfg, rs[it.pos]) IN
         [done |-> FALSE,
          value |-> IF it.index < Len(again) THEN again[it.index + 1] ELSE "",
          it |-> [it EXCEPT !.index = @ + 1, !.buffer = again]]

\* WriterCharacterIterator.next(): the iterator result and the iterator
\* afterwards.
RECURSIVE WriterCharacterIteratorNext(_, _, _)
WriterCharacterIteratorNext(cfg, rs, it) ==
    IF it.buffer = <<>> \/ it.index >= Len(it.buffer)
    THEN IF it.pos >= Len(rs)
         THEN [done |-> TRUE, value |-> "", it |-> it]
         ELSE LET b == [it EXCEPT !.pos = @ + 1, !.index = 1,
                                  !.buffer = writeRow(cfg, rs[it.pos + 1])]
              IN  IF Len(b.buffer) = 0
                  THEN WriterCharacterIteratorNext(cfg, rs, b)
                  ELSE [done |-> FALSE, value |-> b.buffer[1], it |-> b]
    ELSE [done |-> FALSE, value |-> it.buffer[it.index + 1],
          it |-> [it EXCEPT !.index = @ + 1]]

\* What a stream is pushed: a chunk of text, or the end-of-stream marker
\* (null).
Chunk(text) == [null |-> FALSE, data |-> text]
EndOfStream == [null |-> TRUE, data |-> <<>>]

\* new WriterNodeStream(rows, writer), as Writer.stream returns it: a readable
\* stream (chunks is its buffer) with the writer it serializes with, the rows
\* and the number pos of rows pulled from their iterator; reads counts the
\* calls of _read, pushed is what they pushed, and ended tells that the
\* end-of-stream marker was pushed.
WriterNodeStream(cfg, rs) ==
    [exists |-> TRUE, chunks |-> <<>>, paused |-> FALSE, kind |-> "stream",
     writer |-> cfg, rows |-> rs, pos |-> 0, reads |-> 0, pushed |-> <<>>,
     ended |-> FALSE]

\* Readable.push(chunk): the marker ends the stream, a chunk of text joins
\* the buffer unless it is empty.
Push(st, chunk) ==
    IF chunk.null
    THEN [st EXCEPT !.ended = TRUE, !.pushed = Append(@, chunk)]
    ELSE [st EXCEPT !.chunks = IF chunk.data = <<>> THEN @ ELSE Append(@, chunk.data),
                    !.pushed = Append(@, chunk)]

\* _read serializing all the rows that are left into one chunk.
WriterNodeStreamReadAll(cfg, st) ==
    IF st.pos >= Len(st.rows)
    THEN Push([st EXCEPT !.reads = @ + 1], EndOfStream)
    ELSE Push([st EXCEPT !.reads = @ + 1, !.pos = Len(st.rows)],
              Chunk(write(cfg, SubSeq(st.rows, st.pos + 1, Len(st.rows)))))

\* WriterNodeStream._read(): one rows.next(), then one push.
WriterNodeStreamRead(cfg, st) ==
    IF st.pos >= Len(st.rows)
    THEN Push([st EXCEPT !.reads = @ + 1], EndOfStream)
    ELSE Push([st EXCEPT !.reads = @ + 1, !.pos = @ + 1],
              Chunk(writeRow(cfg, st.rows[st.pos + 1])))

(***************************************************************************)
(* Character sources (ParserSource).                                       *)
(***************************************************************************)
NoSource == [kind |-> "none"]

\* String.prototype[Symbol.iterator]() over the text s.
StringSource(s) == [kind |-> "string", text |-> s, pos |-> 0]

\* A readable stream: the chunks its successive read() calls return, and its
\* paused flag; NoReadable is the missing (null) stream.
NoReadable == [exists |-> FALSE, chunks |-> <<>>, paused |-> FALSE]
Readable(chunks) == [exists |-> TRUE, chunks |-> chunks, paused |-> FALSE]

\* new NodeStreamSource(readable).
NodeStreamSource(readable) ==
    [kind |-> "stream", readable |-> readable, index |-> 0, buffer |-> <<>>,
     eof |-> FALSE]

\* What Readable.read() without a size returns of the stream's buffer: all it
\* holds, or null when it holds nothing.
ReadBuffered(filled) ==
    IF filled.chunks = <<>>
    THEN [null |-> TRUE, data |-> <<>>, readable |-> filled]
    ELSE [null |-> FALSE, data |-> Concat(filled.chunks),
          readable |-> [filled EXCEPT !.chunks = <<>>]]

\* Readable.read() without a size on a WriterNodeStream: _read is called
\* unless the stream has ended, and what the buffer holds is returned, or null
\* when it holds nothing.
WriterStreamRead(st) ==
    ReadBuffered(IF st.ended THEN st ELSE WriterNodeStreamRead(st.writer, st))

\* Readable.read() without a size: the next chunk, or null when none is there.
StreamRead(readable) ==
    IF "rows" \in DOMAIN readable
    THEN WriterStreamRead(readable)
    ELSE IF readable.chunks = <<>>
    THEN [null |-> TRUE, data |-> <<>>, readable |-> readable]
    ELSE [null |-> FALSE, data |-> Head(readable.chunks),
          readable |-> [readable EXCEPT !.chunks = Tail(@)]]

\* NodeStreamSource.next() leaving index at 0 after a refill: the first
\* character of the chunk is returned again by the next call.
NodeStreamNextRepeatsFirst(src) ==
    IF src.buffer # <<>> /\ src.index < Len(src.buffer)
    THEN [done |-> FALSE, value |-> src.buffer[src.index + 1],
          src |-> [src EXCEPT !.index = @ + 1], calls |-> <<>>, read |-> EndOfStream]
    ELSE IF ~src.readable.exists
    THEN [done |-> TRUE, value |-> "", src |-> src, calls |-> <<>>, read |-> EndOfStream]
    ELSE LET paused == [src.readable EXCEPT !.paused = TRUE]
             rd == StreamRead(paused)
         IN  IF rd.null \/ rd.data = <<>>
             THEN [done |-> TRUE, value |-> "",
                   src |-> [src EXCEPT !.eof = TRUE,
                                       !.readable = [rd.readable EXCEPT !.paused = FALSE]],
                   calls |-> <<"pause", "read", "resume">>, read |-> EndOfStream]
             ELSE [done |-> FALSE, value |-> rd.data[1],
                   src |-> [src EXCEPT !.buffer = rd.data, !.eof = FALSE,
                                       !.index = 0, !.readable = rd.readable],
                   calls |-> <<"pause", "read">>, read |-> Chunk(rd.data)]

\* NodeStreamSource.next() refilling when one character of the buffer is
\* still to be returned.
NodeStreamNextRefillsEarly(src) ==
    IF src.buffer # <<>> /\ src.index + 1 < Len(src.buffer)
    THEN [done |-> FALSE, value |-> src.buffer[src.index + 1],
          src |-> [src EXCEPT !.index = @ + 1], calls |-> <<>>, read |-> EndOfStream]
    ELSE IF ~src.readable.exists
    THEN [done |-> TRUE, value |-> "", src |-> src, calls |-> <<>>, read |-> EndOfStream]
    ELSE LET paused == [src.readable EXCEPT !.paused = TRUE]
             rd == StreamRead(paused)
         IN  IF rd.null \/ rd.data = <<>>
             THEN [done |-> TRUE, value |-> "",
                   src |-> [src EXCEPT !.eof = TRUE,
                                       !.readable = [rd.readable EXCEPT !.paused = FALSE]],
                   calls |-> <<"pause", "read", "resume">>, read |-> EndOfStream]
             ELSE [done |-> FALSE, value |-> rd.data[1],
                   src |-> [src EXCEPT !.buffer = rd.data, !.eof = FALSE,
                                       !.index = 1, !.readable = rd.readable],
                   calls |-> <<"pause", "read">>, read |-> Chunk(rd.data)]

\* NodeStreamSource.next() resuming the stream after every read().
NodeStreamNextResumesAlways(src) ==
    IF src.buffer # <<>> /\ src.index < Len(src.buffer)
    THEN [done |-> FALSE, value |-> src.buffer[src.index + 1],
          src |-> [src EXCEPT !.index = @ + 1], calls |-> <<>>, read |-> EndOfStream]
    ELSE IF ~src.readable.exists
    THEN [done |-> TRUE, value |-> "", src |-> src, calls |-> <<>>, read |-> EndOfStream]
    ELSE LET paused == [src.readable EXCEPT !.paused = TRUE]
             rd == StreamRead(paused)
         IN  IF rd.null \/ rd.data = <<>>
             THEN [done |-> TRUE, value |-> "",
                   src |-> [src EXCEPT !.eof = TRUE,
                                       !.readable = [rd.readable EXCEPT !.paused = FALSE]],
                   calls |-> <<"pause", "read", "resume">>, read |-> EndOfStream]
             ELSE [done |-> FALSE, value |-> rd.data[1],
                   src |-> [src EXCEPT !.buffer = rd.data, !.eof = FALSE,
                                       !.index = 1, !.readable = [rd.readable EXCEPT !.paused = FALSE]],
                   calls |-> <<"pause", "read", "resume">>, read |-> Chunk(rd.data)]

\* NodeStreamSource.next() once the paused stream was read, rd being what
\* read() returned and the stream it left: end of data on null or an empty
\* chunk, the first character of the new buffer otherwise.
NodeStreamRefill(src, rd) ==
    IF rd.null \/ rd.data = <<>>
    THEN [done |-> TRUE, value |-> "",
          src |-> [src EXCEPT !.eof = TRUE,
                              !.readable = [rd.readable EXCEPT !.paused = FALSE]],
          calls |-> <<"pause", "read", "resume">>, read |-> EndOfStream]
    ELSE [done |-> FALSE, value |-> rd.data[1],
          src |-> [src EXCEPT !.buffer = rd.data, !.eof = FALSE,
                              !.index = 1, !.readable = rd.readable],
          calls |-> <<"pause", "read">>, read |-> Chunk(rd.data)]

\* NodeStreamSource.next(): the iterator result and the source afterwards, with
\* the methods it called on the stream, in order, and what read() returned.
NodeStreamNext(src) ==
    IF src.buffer # <<>> /\ src.index < Len(src.buffer)
    THEN [done |-> FALSE, value |-> src.buffer[src.index + 1],
          src |-> [src EXCEPT !.index = @ + 1], calls |-> <<>>, read |-> EndOfStream]
    ELSE IF ~src.readable.exists
    THEN [done |-> TRUE, value |-> "", src |-> src, calls |-> <<>>, read |-> EndOfStream]
    ELSE NodeStreamRefill(src, StreamRead([src.readable EXCEPT !.paused = TRUE]))

\* source.next() of the attached source: the iterator result and the source
\* after the pull.
SourceNext(src) ==
    IF src.kind = "string"
    THEN IF src.pos < Len(src.text)
         THEN [done |-> FALSE, value |-> src.text[src.pos + 1],
               src |-> [src EXCEPT !.pos = @ + 1]]
         ELSE [done |-> TRUE, value |-> Undefined, src |-> src]
    ELSE NodeStreamNext(src)

(***************************************************************************)
(* Parser.nextRow (the row tokenizer).                                     *)
(***************************************************************************)
\* The locals of nextRow at its entry.
FreshLocals ==
    [row |-> <<>>, column |-> <<>>, quoted |-> FALSE, last |-> "",
     consumed |-> 0, terminator |-> 0, brk |-> FALSE]

\* Consume with the doubled-quote branch re-entering the span without
\* appending the quote character.
ConsumeNoLiteralQuote(cfg, l, ch) ==
    LET c == [l EXCEPT !.consumed = @ + 1] IN
    IF c.quoted /\ ch = cfg.quote
    THEN [c EXCEPT !.quoted = FALSE, !.last = ch]
    ELSE IF c.quoted
    THEN [c EXCEPT !.column = Append(@, ch), !.last = ch]
    ELSE IF ch = cfg.quote
    THEN [c EXCEPT !.quoted = TRUE, !.last = ch]
    ELSE IF ch = cfg.separator
    THEN [c EXCEPT !.row = Append(@, c.column), !.column = <<>>, !.last = ch]
    ELSE IF ch = LF
    THEN IF c.last = CR
         THEN [c EXCEPT !.column = SubSeq(@, 1, Len(@) - 1), !.terminator = 2,
                        !.brk = TRUE]
         ELSE [c EXCEPT !.terminator = 1, !.brk = TRUE]
    ELSE [c EXCEPT !.column = Append(@, ch), !.last = ch]

\* Consume with the line-feed test made before the quoted-span tests.
ConsumeLFFirst(cfg, l, ch) ==
    LET c == [l EXCEPT !.consumed = @ + 1] IN
    IF ch = LF
    THEN IF c.last = CR
         THEN [c EXCEPT !.column = SubSeq(@, 1, Len(@) - 1), !.terminator = 2,
                        !.brk = TRUE]
         ELSE [c EXCEPT !.terminator = 1, !.brk = TRUE]
    ELSE IF c.quoted /\ ch = cfg.quote
    THEN [c EXCEPT !.quoted = FALSE, !.last = ch]
    ELSE IF c.quoted
    THEN [c EXCEPT !.column = Append(@, ch), !.last = ch]
    ELSE IF c.last = cfg.quote /\ ch = cfg.quote
    THEN [c EXCEPT !.quoted = TRUE, !.column = @ \o Str(cfg.quote), !.last = ch]
    ELSE IF ch = cfg.quote
    THEN [c EXCEPT !.quoted = TRUE, !.last = ch]
    ELSE IF ch = cfg.separator
    THEN [c EXCEPT !.row = Append(@, c.column), !.column = <<>>, !.last = ch]
    ELSE [c EXCEPT !.column = Append(@, ch), !.last = ch]

\* Consume with a carriage return ending the row like a line feed.
ConsumeCREndsRow(cfg, l, ch) ==
    LET c == [l EXCEPT !.consumed = @ + 1] IN
    IF c.quoted /\ ch = cfg.quote
    THEN [c EXCEPT !.quoted = FALSE, !.last = ch]
    ELSE IF c.quoted
    THEN [c EXCEPT !.column = Append(@, ch), !.last = ch]
    ELSE IF c.last = cfg.quote /\ ch = cfg.quote
    THEN [c EXCEPT !.quoted = TRUE, !.column = @ \o Str(cfg.quote), !.last = ch]
    ELSE IF ch = cfg.quote
    THEN [c EXCEPT !.quoted = TRUE, !.last = ch]
    ELSE IF ch = cfg.separator
    THEN [c EXCEPT !.row = Append(@, c.column), !.column = <<>>, !.last = ch]
    ELSE IF ch = LF \/ ch = CR
    THEN [c EXCEPT !.terminator = 1, !.brk = TRUE]
    ELSE [c EXCEPT !.column = Append(@, ch), !.last = ch]

\* Consume with the carriage return of a CR LF terminator left in the column.
ConsumeKeepsCR(cfg, l, ch) ==
    LET c == [l EXCEPT !.consumed = @ + 1] IN
    IF c.quoted /\ ch = cfg.quote
    THEN [c EXCEPT !.quoted = FALSE, !.last = ch]
    ELSE IF c.quoted
    THEN [c EXCEPT !.column = Append(@, ch), !.last = ch]
    ELSE IF c.last = cfg.quote /\ ch = cfg.quote
    THEN [c EXCEPT !.quoted = TRUE, !.column = @ \o Str(cfg.quote), !.last = ch]
    ELSE IF ch = cfg.quote
    THEN [c EXCEPT !.quoted = TRUE, !.last = ch]
    ELSE IF ch = cfg.separator
    THEN [c EXCEPT !.row = Append(@, c.column), !.column = <<>>, !.last = ch]
    ELSE IF ch = LF
    THEN IF c.last = CR
         THEN [c EXCEPT !.terminator = 2, !.brk = TRUE]
         ELSE [c EXCEPT !.terminator = 1, !.brk = TRUE]
    ELSE [c EXCEPT !.column = Append(@, ch), !.last = ch]

\* Consume with a blank separator matching every character (the separator
\* tested as a prefix of the character).
ConsumeSeparatorPrefix(cfg, l, ch) ==
    LET c == [l EXCEPT !.consumed = @ + 1] IN
    IF c.quoted /\ ch = cfg.quote
    THEN [c EXCEPT !.quoted = FALSE, !.last = ch]
    ELSE IF c.quoted
    THEN [c EXCEPT !.column = Append(@, ch), !.last = ch]
    ELSE IF c.last = cfg.quote /\ ch = cfg.quote
    THEN [c EXCEPT !.quoted = TRUE, !.column = @ \o Str(cfg.quote), !.last = ch]
    ELSE IF ch = cfg.quote
    THEN [c EXCEPT !.quoted = TRUE, !.last = ch]
    ELSE IF cfg.separator = "" \/ ch = cfg.separator
    THEN [c EXCEPT !.row = Append(@, c.column), !.column = <<>>, !.last = ch]
    ELSE IF ch = LF
    THEN IF c.last = CR
         THEN [c EXCEPT !.column = SubSeq(@, 1, Len(@) - 1), !.terminator = 2,
                        !.brk = TRUE]
         ELSE [c EXCEPT !.terminator = 1, !.brk = TRUE]
    ELSE [c EXCEPT !.column = Append(@, ch), !.last = ch]

\* Consume with the row ended by the configured terminator in place of the
\* line feed: by its last character, the one before it removed from the column
\* when the terminator has two characters.
ConsumeConfiguredNewline(cfg, l, ch) ==
    LET c == [l EXCEPT !.consumed = @ + 1] IN
    IF c.quoted /\ ch = cfg.quote
    THEN [c EXCEPT !.quoted = FALSE, !.last = ch]
    ELSE IF c.quoted
    THEN [c EXCEPT !.column = Append(@, ch), !.last = ch]
    ELSE IF c.last = cfg.quote /\ ch = cfg.quote
    THEN [c EXCEPT !.quoted = TRUE, !.column = @ \o Str(cfg.quote), !.last = ch]
    ELSE IF ch = cfg.quote
    THEN [c EXCEPT !.quoted = TRUE, !.last = ch]
    ELSE IF ch = cfg.separator
    THEN [c EXCEPT !.row = Append(@, c.column), !.column = <<>>, !.last = ch]
    ELSE IF cfg.newline # <<>> /\ ch = cfg.newline[Len(cfg.newline)]
    THEN IF Len(cfg.newline) = 2 /\ c.last = cfg.newline[1]
         THEN [c EXCEPT !.column = SubSeq(@, 1, Len(@) - 1), !.terminator = 2,
                        !.brk = TRUE]
         ELSE [c EXCEPT !.terminator = 1, !.brk = TRUE]
    ELSE [c EXCEPT !.column = Append(@, ch), !.last = ch]

\* Consume with the last character of the column removed at every line feed
\* that ends a row, whatever the character before the line feed.
ConsumeStripsAny(cfg, l, ch) ==
    LET c == [l EXCEPT !.consumed = @ + 1] IN
    IF c.quoted /\ ch = cfg.quote
    THEN [c EXCEPT !.quoted = FALSE, !.last = ch]
    ELSE IF c.quoted
    THEN [c EXCEPT !.column = Append(@, ch), !.last = ch]
    ELSE IF c.last = cfg.quote /\ ch = cfg.quote
    THEN [c EXCEPT !.quoted = TRUE, !.column = @ \o Str(cfg.quote), !.last = ch]
    ELSE IF ch = cfg.quote
    THEN [c EXCEPT !.quoted = TRUE, !.last = ch]
    ELSE IF ch = cfg.separator
    THEN [c EXCEPT !.row = Append(@, c.column), !.column = <<>>, !.last = ch]
    ELSE IF ch = LF
    THEN [c EXCEPT !.column = SubSeq(@, 1, Len(@) - 1),
                   !.terminator = IF c.last = CR THEN 2 ELSE 1, !.brk = TRUE]
    ELSE [c EXCEPT !.column = Append(@, ch), !.last = ch]

\* One character consumed by the loop of nextRow: the locals afterwards;
\* brk is set when the character ends the row.
Consume(cfg, l, ch) ==
    LET c == [l EXCEPT !.consumed = @ + 1] IN
    IF c.quoted /\ ch = cfg.quote
    THEN [c EXCEPT !.quoted = FALSE, !.last = ch]
    ELSE IF c.quoted
    THEN [c EXCEPT !.column = Append(@, ch), !.last = ch]
    ELSE IF c.last = cfg.quote /\ ch = cfg.quote
    THEN [c EXCEPT !.quoted = TRUE, !.column = @ \o Str(cfg.quote), !.last = ch]
    ELSE IF ch = cfg.quote
    THEN [c EXCEPT !.quoted = TRUE, !.last = ch]
    ELSE IF ch = cfg.separator
    THEN [c EXCEPT !.row = Append(@, c.column), !.column = <<>>, !.last = ch]
    ELSE IF ch = LF
    THEN IF c.last = CR
         THEN [c EXCEPT !.column = SubSeq(@, 1, Len(@) - 1), !.terminator = 2,
                        !.brk = TRUE]
         ELSE [c EXCEPT !.terminator = 1, !.brk = TRUE]
    ELSE [c EXCEPT !.column = Append(@, ch), !.last = ch]

\* FinishRow with the final column always pushed.
FinishRowAlways(l) == Append(l.row, l.column)

\* FinishRow with the final column never pushed.
FinishRowDropsColumn(l) == l.row

\* FinishRow with the final column pushed also when only the terminator was
\* consumed.
FinishRowAtLeast(l) ==
    IF l.consumed >= l.terminator THEN Append(l.row, l.column) ELSE l.row

\* FinishRow with an empty final column left out of a row that has no other
\* column.
FinishRowSkipsEmpty(l) ==
    IF l.consumed > l.terminator /\ (l.column # <<>> \/ l.row # <<>>)
    THEN Append(l.row, l.column)
    ELSE l.row

\* The row nextRow returns once its loop has ended.
FinishRow(l) ==
    IF l.consumed > l.terminator THEN Append(l.row, l.column) ELSE l.row

\* Iterate signalling end-of-data on every exhaustion, whatever was consumed.
IterateDropsPartial(cfg, src, l) ==
    IF src.kind = "none"
    THEN [done |-> TRUE, undef |-> TRUE, value |-> <<>>, src |-> src, loc |-> l]
    ELSE LET next == SourceNext(src) IN
         IF next.done \/ next.value = "" \/ next.value = Undefined
         THEN [done |-> TRUE, undef |-> TRUE, value |-> <<>>,
               src |-> next.src, loc |-> l]
         ELSE LET c == Consume(cfg, l, next.value) IN
              IF c.brk
              THEN [done |-> TRUE, undef |-> FALSE, value |-> FinishRow(c),
                    src |-> next.src, loc |-> c]
              ELSE [done |-> FALSE, undef |-> FALSE, value |-> <<>>,
                    src |-> next.src, loc |-> c]

\* Iterate without the test of consumed on exhaustion: the loop is left and the
\* row returned.
IterateNoConsumedTest(cfg, src, l) ==
    IF src.kind = "none"
    THEN [done |-> TRUE, undef |-> TRUE, value |-> <<>>, src |-> src, loc |-> l]
    ELSE LET next == SourceNext(src) IN
         IF next.done \/ next.value = "" \/ next.value = Undefined
         THEN [done |-> TRUE, undef |-> FALSE, value |-> FinishRow(l),
               src |-> next.src, loc |-> l]
         ELSE LET c == Consume(cfg, l, next.value) IN
              IF c.brk
              THEN [done |-> TRUE, undef |-> FALSE, value |-> FinishRow(c),
                    src |-> next.src, loc |-> c]
              ELSE [done |-> FALSE, undef |-> FALSE, value |-> <<>>,
                    src |-> next.src, loc |-> c]

\* Iterate pulling one character more once a line feed has ended the row.
IterateLooksAhead(cfg, src, l) ==
    IF src.kind = "none"
    THEN [done |-> TRUE, undef |-> TRUE, value |-> <<>>, src |-> src, loc |-> l]
    ELSE LET next == SourceNext(src) IN
         IF next.done \/ next.value = "" \/ next.value = Undefined
         THEN IF l.consumed = 0
              THEN [done |-> TRUE, undef |-> TRUE, value |-> <<>>,
                    src |-> next.src, loc |-> l]
              ELSE [done |-> TRUE, undef |-> FALSE, value |-> FinishRow(l),
                    src |-> next.src, loc |-> l]
         ELSE LET c == Consume(cfg, l, next.value) IN
              IF c.brk
              THEN [done |-> TRUE, undef |-> FALSE, value |-> FinishRow(c),
                    src |-> SourceNext(next.src).src, loc |-> c]
              ELSE [done |-> FALSE, undef |-> FALSE, value |-> <<>>,
                    src |-> next.src, loc |-> c]

\* One iteration of the loop of nextRow, from the pull to the `last = ch`
\* assignment, with the return that follows when the iteration ends the call:
\* done tells whether nextRow returned, and then undef whether it returned
\* undefined, and value the row it returned otherwise.
Iterate(cfg, src, l) ==
    IF src.kind = "none"
    THEN [done |-> TRUE, undef |-> TRUE, value |-> <<>>, src |-> src, loc |-> l]
    ELSE LET next == SourceNext(src) IN
         IF next.done \/ next.value = "" \/ next.value = Undefined
         THEN IF l.consumed = 0
              THEN [done |-> TRUE, undef |-> TRUE, value |-> <<>>,
                    src |-> next.src, loc |-> l]
              ELSE [done |-> TRUE, undef |-> FALSE, value |-> FinishRow(l),
                    src |-> next.src, loc |-> l]
         ELSE LET c == Consume(cfg, l, next.value) IN
              IF c.brk
              THEN [done |-> TRUE, undef |-> FALSE, value |-> FinishRow(c),
                    src |-> next.src, loc |-> c]
              ELSE [done |-> FALSE, undef |-> FALSE, value |-> <<>>,
                    src |-> next.src, loc |-> c]

\* The whole of nextRow, continued from the locals l.
RECURSIVE NextRowFrom(_, _, _)
NextRowFrom(cfg, src, l) ==
    LET it == Iterate(cfg, src, l) IN
    IF it.done THEN it ELSE NextRowFrom(cfg, it.src, it.loc)

nextRow(cfg, src) == NextRowFrom(cfg, src, FreshLocals)

\* Parser.rows(): nextRow until it returns undefined, continued from the rows
\* collected so far.
RECURSIVE RowsFrom(_, _, _)
RowsFrom(cfg, src, rows) ==
    LET r == nextRow(cfg, src) IN
    IF r.undef
    THEN [rows |-> rows, src |-> r.src]
    ELSE RowsFrom(cfg, r.src, Append(rows, r.value))

\* rows() reading from a copy of the source: the rows are returned and the
\* source of the parser is left where it was.
rowsOnCopy(cfg, src) == [rows |-> RowsFrom(cfg, src, <<>>).rows, src |-> src]

rows(cfg, src) == RowsFrom(cfg, src, <<>>)

\* next() taking a row of no columns for the missing row.
nextEmptyIsDone(cfg, src) ==
    LET r == nextRow(cfg, src) IN
    [done |-> r.undef \/ r.value = <<>>, value |-> IF r.undef THEN <<>> ELSE r.value,
     src |-> r.src]

\* Parser.next(): {done: !row, value: row || []}; a row is an array, which is
\* truthy also when it is empty.
next(cfg, src) ==
    LET r == nextRow(cfg, src) IN
    [done |-> r.undef, value |-> IF r.undef THEN <<>> ELSE r.value, src |-> r.src]

(***************************************************************************)
(* The state after construction.                                           *)
(***************************************************************************)
\* What the last Parser call returned: kind is "none" before any call, "this"
\* after parse, "pending" during a call, then "undefined" or "row" for
\* nextRow, "rows" for rows, and for next "done" (done is true) or "value"
\* (done is false); first tells that the call was the first one after parse
\* attached the source.
NoReturn == [kind |-> "none", value |-> <<>>, first |-> FALSE]
Returned(kind, value, first) == [kind |-> kind, value |-> value, first |-> first]
\* What the last Writer call returned: op is "none" before any call, then
\* "write", "writeColumn", "writeRow" (of an array), "writeRowMissing" (of the
\* missing row), "rows" or "iterate"; text is the text returned, empty for the
\* two that return an iterator.
Unwritten == [op |-> "none", text |-> <<>>]

\* No lazy iterator has been asked of the Writer.
NoIterator == [kind |-> "none", pos |-> 0, buffer |-> <<>>, index |-> 0]
\* What the caller has pulled from the lazy iterator: the values of the
\* results that were not done, in order, and whether the last result was done.
NothingPulled == [values |-> <<>>, done |-> FALSE]
\* What the caller has been handed by the Parser: attached is the source as
\* parse attached it, delivered the rows handed out since, in order, ended
\* whether a call has reported end-of-data, and via the methods called.
NothingSeen == [attached |-> NoSource, delivered |-> <<>>, ended |-> FALSE, via |-> {}]
\* The NodeJS stream under the source, where the caller takes note of it:
\* pending is the chunks that have yet to arrive at the stream, arrived the
\* chunks that have, obtained the
\* chunks its read() has returned to the NodeStreamSource, and calls the
\* methods the last next() of the NodeStreamSource called on it.
NoStream == [pending |-> <<>>, arrived |-> <<>>, obtained |-> <<>>, calls |-> <<>>]

\* The options objects a Parser is constructed with.
ParserOptions ==
    {NoOptions, Option("separator", "\t"), Option("separator", "|"),
     Option("quote", "'"), Option("separator", ""), Option("quote", "")}

\* The options objects shared by a Writer and the Parser that reads it back.
SharedOptions ==
    {NoOptions, Option("separator", "\t"), Option("separator", "|"),
     Option("quote", "'"), Option("newline", <<LF>>), Option("newline", <<>>),
     Option("quoteAll", TRUE)}

\* new Parser(options), no source attached.
Init ==
    /\ \E o \in ParserOptions : parser = configure(o)
    /\ writer = configure(NoOptions)
    /\ source = NoSource
    /\ call = "none"
    /\ loc = FreshLocals
    /\ acc = <<>>
    /\ ret = NoReturn
    /\ input = <<>>
    /\ data = Unwritten
    /\ opts = NoOptions
    /\ before = writer
    /\ iter = NoIterator
    /\ out = NothingPulled
    /\ seen = NothingSeen
    /\ stream = NoStream

\* The options objects of a Parser whose separator or quote is any single
\* character: those above, and the carriage return or the line feed for one
\* of the two.
AnyCharacterOptions ==
    ParserOptions \cup
    {Option("separator", CR), Option("quote", CR),
     Option("separator", LF), Option("quote", LF)}

\* new Parser(options) with any single character for separator or quote.
InitAnyCharacter ==
    /\ \E o \in AnyCharacterOptions : parser = configure(o)
    /\ writer = configure(NoOptions)
    /\ source = NoSource
    /\ call = "none"
    /\ loc = FreshLocals
    /\ acc = <<>>
    /\ ret = NoReturn
    /\ input = <<>>
    /\ data = Unwritten
    /\ opts = NoOptions
    /\ before = writer
    /\ iter = NoIterator
    /\ out = NothingPulled
    /\ seen = NothingSeen
    /\ stream = NoStream

\* new Writer(options) and new Parser(options) with the same options.
InitShared ==
    /\ \E o \in SharedOptions :
         parser = configure(o) /\ writer = configure(o) /\ opts = o
    /\ source = NoSource
    /\ call = "none"
    /\ loc = FreshLocals
    /\ acc = <<>>
    /\ ret = NoReturn
    /\ input = <<>>
    /\ data = Unwritten
    /\ before = writer
    /\ iter = NoIterator
    /\ out = NothingPulled
    /\ seen = NothingSeen
    /\ stream = NoStream

(***************************************************************************)
(* Parser operations.                                                      *)
(***************************************************************************)
\* The missing stream, and streams of a few chunks.
Chunks == {<<"a">>, <<"a", LF>>, <<LF, "a">>}
Readables == {NoReadable} \cup {Readable(cs) : cs \in SeqUpTo(Chunks, MaxChunks)}

\* Parser.parse(source) with a string, on a parser that has no source yet.
ParseString ==
    /\ call = "none"
    /\ source = NoSource
    /\ \E doc \in SeqUpTo(Alphabet(parser), MaxDocLen) : source' = StringSource(doc)
    /\ ret' = Returned("this", <<>>, FALSE)
    /\ UNCHANGED <<parser, writer, call, loc, acc, input, data,
                   opts, before, iter, out, seen, stream>>

\* Parser.parse(source) with a NodeStreamSource (an iterator), on a parser
\* that has no source yet.
ParseStream ==
    /\ call = "none"
    /\ source = NoSource
    /\ \E r \in Readables : source' = NodeStreamSource(r)
    /\ ret' = Returned("this", <<>>, FALSE)
    /\ UNCHANGED <<parser, writer, call, loc, acc, input, data,
                   opts, before, iter, out, seen, stream>>

\* Entry of Parser.nextRow().
CallNextRow ==
    /\ call = "none"
    /\ call' = "nextRow"
    /\ loc' = FreshLocals
    /\ ret' = Returned("pending", <<>>, ret.kind = "this")
    /\ UNCHANGED <<parser, writer, source, acc, input, data,
                   opts, before, iter, out, seen, stream>>

\* Entry of Parser.rows().
CallRows ==
    /\ call = "none"
    /\ call' = "rows"
    /\ loc' = FreshLocals
    /\ acc' = <<>>
    /\ ret' = Returned("pending", <<>>, ret.kind = "this")
    /\ UNCHANGED <<parser, writer, source, input, data,
                   opts, before, iter, out, seen, stream>>

\* Step with the column buffer of nextRow kept from one row of rows() to the
\* next instead of starting empty.
StepKeepsColumn ==
    /\ call # "none"
    /\ LET it == Iterate(parser, source, loc) IN
       /\ source' = it.src
       /\ IF ~it.done
          THEN /\ loc' = it.loc
               /\ UNCHANGED <<call, acc, ret>>
          ELSE IF call = "nextRow"
          THEN /\ call' = "none"
               /\ loc' = FreshLocals
               /\ ret' = IF it.undef THEN Returned("undefined", <<>>, ret.first)
                                     ELSE Returned("row", it.value, ret.first)
               /\ UNCHANGED acc
          ELSE IF ~it.undef
          THEN /\ acc' = Append(acc, it.value)
               /\ loc' = [FreshLocals EXCEPT !.column = it.loc.column]
               /\ UNCHANGED <<call, ret>>
          ELSE /\ call' = "none"
               /\ loc' = FreshLocals
               /\ ret' = Returned("rows", acc, ret.first)
               /\ acc' = <<>>
    /\ UNCHANGED <<parser, writer, input, data, opts, before, iter, out, seen, stream>>

\* One iteration of the loop of nextRow, within nextRow() or within rows();
\* when it ends the nextRow call, the return and what the caller does with it.
Step ==
    /\ call # "none"
    /\ LET it == Iterate(parser, source, loc) IN
       /\ source' = it.src
       /\ IF ~it.done
          THEN /\ loc' = it.loc
               /\ UNCHANGED <<call, acc, ret>>
          ELSE IF call = "nextRow"
          THEN /\ call' = "none"
               /\ loc' = FreshLocals
               /\ ret' = IF it.undef THEN Returned("undefined", <<>>, ret.first)
                                     ELSE Returned("row", it.value, ret.first)
               /\ UNCHANGED acc
          ELSE IF ~it.undef
          THEN /\ acc' = Append(acc, it.value)
               /\ loc' = FreshLocals
               /\ UNCHANGED <<call, ret>>
          ELSE /\ call' = "none"
               /\ loc' = FreshLocals
               /\ ret' = Returned("rows", acc, ret.first)
               /\ acc' = <<>>
    /\ UNCHANGED <<parser, writer, input, data, opts, before, iter, out, seen, stream>>

Next == ParseString \/ ParseStream \/ CallNextRow \/ CallRows \/ Step

Spec == Init /\ [][Next]_vars

\* A call of nextRow() or rows() runs to its return: the loop is synchronous.
FairSpec == Spec /\ WF_vars(Step)

\* The same calls on a parser whose separator or quote is any character.
SpecAnyCharacter == InitAnyCharacter /\ [][Next]_vars

(***************************************************************************)
(* Parser calls as their caller sees them: each call runs to its return,   *)
(* and the caller keeps what it was handed.                                *)
(***************************************************************************)
\* Parser.parse(source) with a string or a NodeStreamSource, on a parser that
\* has no source yet.
Parse ==
    /\ source = NoSource
    /\ \E src \in {StringSource(doc) : doc \in SeqUpTo(Alphabet(parser), MaxDocLen)}
                  \cup {NodeStreamSource(r) : r \in Readables} :
         /\ source' = src
         /\ seen' = [NothingSeen EXCEPT !.attached = src]
    /\ ret' = Returned("this", <<>>, FALSE)
    /\ UNCHANGED <<parser, writer, call, loc, acc, input, data, opts, before, iter, out, stream>>

\* Parser.nextRow(), from its call to its return.
NextRowCall ==
    /\ LET r == nextRow(parser, source) IN
       /\ source' = r.src
       /\ ret' = IF r.undef THEN Returned("undefined", <<>>, ret.kind = "this")
                            ELSE Returned("row", r.value, ret.kind = "this")
       /\ seen' = [seen EXCEPT
                     !.delivered = IF r.undef THEN @ ELSE Append(@, r.value),
                     !.ended = @ \/ r.undef,
                     !.via = @ \cup {"nextRow"}]
    /\ UNCHANGED <<parser, writer, call, loc, acc, input, data, opts, before, iter, out, stream>>

\* Parser.next(), from its call to its return.
NextCall ==
    /\ LET r == next(parser, source) IN
       /\ source' = r.src
       /\ ret' = Returned(IF r.done THEN "done" ELSE "value", r.value,
                          ret.kind = "this")
       /\ seen' = [seen EXCEPT
                     !.delivered = IF r.done THEN @ ELSE Append(@, r.value),
                     !.ended = @ \/ r.done,
                     !.via = @ \cup {"next"}]
    /\ UNCHANGED <<parser, writer, call, loc, acc, input, data, opts, before, iter, out, stream>>

\* Parser.rows(), from its call to its return.
RowsCall ==
    /\ LET r == rows(parser, source) IN
       /\ source' = r.src
       /\ ret' = Returned("rows", r.rows, ret.kind = "this")
       /\ seen' = [seen EXCEPT
                     !.delivered = @ \o r.rows,
                     !.ended = TRUE,
                     !.via = @ \cup {"rows"}]
    /\ UNCHANGED <<parser, writer, call, loc, acc, input, data, opts, before, iter, out, stream>>

NextCalls == Parse \/ NextRowCall \/ NextCall \/ RowsCall

SpecCalls == Init /\ [][NextCalls]_vars

\* The options objects of a Parser that is given the options of a Writer: a
\* terminator, quoteAll, both, and both with a separator.
WriteOnlyOptions ==
    {Option("newline", <<LF>>), Option("newline", <<>>), Option("quoteAll", TRUE),
     [has |-> {"newline", "quoteAll"}, val |-> [newline |-> <<"a">>, quoteAll |-> TRUE]],
     [has |-> {"newline", "separator"}, val |-> [newline |-> <<LF>>, separator |-> "\t"]]}

\* new Parser(options) with options that set newline or quoteAll.
InitWriteOnly ==
    /\ \E o \in WriteOnlyOptions : parser = configure(o) /\ opts = o
    /\ writer = configure(NoOptions)
    /\ source = NoSource
    /\ call = "none"
    /\ loc = FreshLocals
    /\ acc = <<>>
    /\ ret = NoReturn
    /\ input = <<>>
    /\ data = Unwritten
    /\ before = writer
    /\ iter = NoIterator
    /\ out = NothingPulled
    /\ seen = NothingSeen
    /\ stream = NoStream

SpecWriteOnly == InitWriteOnly /\ [][NextCalls]_vars

(***************************************************************************)
(* Parsing a stream whose data arrives while the parser pulls.             *)
(***************************************************************************)
\* Parser.parse(readable) with a stream that has received nothing yet, on a
\* parser that has no source yet.
ParseArriving ==
    /\ source = NoSource
    /\ \E cs \in SeqUpTo(Chunks, MaxPending) \ {<<>>} :
         stream' = [NoStream EXCEPT !.pending = cs]
    /\ source' = NodeStreamSource(Readable(<<>>))
    /\ seen' = [NothingSeen EXCEPT !.attached = source']
    /\ ret' = Returned("this", <<>>, FALSE)
    /\ UNCHANGED <<parser, writer, call, loc, acc, input, data, opts, before, iter, out>>

\* The next chunk arrives at the stream, between two calls of the parser:
\* read() returns it from then on.
Arrive ==
    /\ source.kind = "stream"
    /\ stream.pending # <<>>
    /\ source' = [source EXCEPT !.readable.chunks = Append(@, Head(stream.pending))]
    /\ stream' = [stream EXCEPT !.pending = Tail(@),
                                !.arrived = Append(@, Head(stream.pending))]
    /\ UNCHANGED <<parser, writer, call, loc, acc, ret, input, data, opts, before,
                   iter, out, seen>>

NextArrival == ParseArriving \/ Arrive \/ NextRowCall \/ NextCall \/ RowsCall

SpecArrival == Init /\ [][NextArrival]_vars

(***************************************************************************)
(* Pulling characters from a NodeStreamSource.                             *)
(***************************************************************************)
\* source.next() on the NodeStreamSource, by the loop of nextRow or by any
\* other caller of the iterator; the caller keeps what it is handed and takes
\* note of what was called on the stream.
SourcePull ==
    /\ source.kind = "stream"
    /\ LET r == NodeStreamNext(source) IN
       /\ source' = r.src
       /\ out' = [values |-> IF r.done THEN out.values ELSE Append(out.values, r.value),
                  done |-> r.done]
       /\ stream' = [stream EXCEPT
                       !.calls = r.calls,
                       !.obtained = IF r.read.null THEN @ ELSE Append(@, r.read.data)]
    /\ UNCHANGED <<parser, writer, call, loc, acc, ret, input, data, opts, before,
                   iter, seen>>

NextSource == ParseArriving \/ Arrive \/ SourcePull

SpecSource == Init /\ [][NextSource]_vars

(***************************************************************************)
(* Writing rows and reading them back.                                     *)
(***************************************************************************)
\* Characters of all the columns of the rows rs together, and their columns.
RECURSIVE CharsOfRow(_)
CharsOfRow(row) == IF row = <<>> THEN 0 ELSE Len(Head(row)) + CharsOfRow(Tail(row))
RECURSIVE CharsOf(_)
CharsOf(rs) == IF rs = <<>> THEN 0 ELSE CharsOfRow(Head(rs)) + CharsOf(Tail(rs))
RECURSIVE CellsOf(_)
CellsOf(rs) == IF rs = <<>> THEN 0 ELSE Len(Head(rs)) + CellsOf(Tail(rs))

\* The caller appends an empty row to its array.
AddRow ==
    /\ data.op = "none"
    /\ Len(input) < MaxRows
    /\ input' = Append(input, <<>>)
    /\ UNCHANGED <<parser, writer, source, call, loc, acc, ret, data,
                   opts, before, iter, out, seen, stream>>

\* The caller appends an empty column to the last row of its array.
AddColumn ==
    /\ data.op = "none"
    /\ input # <<>>
    /\ CellsOf(input) < MaxCells
    /\ input' = [input EXCEPT ![Len(input)] = Append(@, <<>>)]
    /\ UNCHANGED <<parser, writer, source, call, loc, acc, ret, data,
                   opts, before, iter, out, seen, stream>>

\* The caller appends a character to the last column of the last row.
AddChar ==
    /\ data.op = "none"
    /\ input # <<>>
    /\ input[Len(input)] # <<>>
    /\ CharsOf(input) < MaxChars
    /\ \E c \in Alphabet(writer) :
         input' = [input EXCEPT ![Len(input)] =
                      [@ EXCEPT ![Len(@)] = Append(@, c)]]
    /\ UNCHANGED <<parser, writer, source, call, loc, acc, ret, data,
                   opts, before, iter, out, seen, stream>>

\* data = writer.write(input).
Write ==
    /\ data.op = "none"
    /\ data' = [op |-> "write", text |-> write(writer, input)]
    /\ UNCHANGED <<parser, writer, source, call, loc, acc, ret, input,
                   opts, before, iter, out, seen, stream>>

\* writeColumn keeping its needsQuotes flag in the quoteAll field of the
\* Writer.
WriteColumnSetsQuoteAll ==
    /\ data.op = "none"
    /\ input # <<>>
    /\ input[Len(input)] # <<>>
    /\ LET row == input[Len(input)] IN
       /\ data' = [op |-> "writeColumn", text |-> writeColumn(writer, row[Len(row)])]
       /\ writer' = [writer EXCEPT !.quoteAll =
                        EscapeFrom(writer, row[Len(row)], 1, <<>>, @).needsQuotes]
    /\ UNCHANGED <<parser, source, call, loc, acc, ret, input,
                   opts, before, iter, out, seen, stream>>

\* data = writer.writeColumn(v), v the last column of the caller's array.
WriteColumn ==
    /\ data.op = "none"
    /\ input # <<>>
    /\ input[Len(input)] # <<>>
    /\ LET row == input[Len(input)] IN
       data' = [op |-> "writeColumn", text |-> writeColumn(writer, row[Len(row)])]
    /\ UNCHANGED <<parser, writer, source, call, loc, acc, ret, input,
                   opts, before, iter, out, seen, stream>>

\* parser.parse(data).rows(): the written text is attached as a string source
\* and read to its end.
ReadBack ==
    /\ data.op = "write"
    /\ call = "none"
    /\ source = NoSource
    /\ LET r == rows(parser, StringSource(data.text)) IN
       /\ source' = r.src
       /\ ret' = Returned("rows", r.rows, TRUE)
    /\ UNCHANGED <<parser, writer, call, loc, acc, input, data,
                   opts, before, iter, out, seen, stream>>

NextShared == AddRow \/ AddColumn \/ AddChar \/ Write \/ WriteColumn \/ ReadBack

SpecShared == InitShared /\ [][NextShared]_vars

(***************************************************************************)
(* Writing rows to a stream and reading the stream back.                   *)
(***************************************************************************)
\* iter = writer.stream(input).
WriterStream ==
    /\ data.op = "none"
    /\ data' = [op |-> "stream", text |-> <<>>]
    /\ iter' = WriterNodeStream(writer, input)
    /\ UNCHANGED <<parser, writer, source, call, loc, acc, ret, input,
                   opts, before, out, seen, stream>>

\* parser.parse(iter): the stream is wrapped in a NodeStreamSource and is the
\* parser's from then on.
ParseStreamed ==
    /\ iter.kind = "stream"
    /\ source = NoSource
    /\ source' = NodeStreamSource(iter)
    /\ iter' = NoIterator
    /\ seen' = [NothingSeen EXCEPT !.attached = source']
    /\ ret' = Returned("this", <<>>, FALSE)
    /\ UNCHANGED <<parser, writer, call, loc, acc, input, data, opts, before, out,
                   stream>>

\* Before the parser is called the stream fills its buffer ahead: _read is
\* called on it, as long as it has not ended.
ReadAhead ==
    /\ source.kind = "stream"
    /\ ~source.readable.ended
    /\ source' = [source EXCEPT
                    !.readable = WriterNodeStreamRead(source.readable.writer, @)]
    /\ UNCHANGED <<parser, writer, call, loc, acc, ret, input, data, opts, before,
                   iter, out, seen, stream>>

NextStreamed ==
    \/ AddRow \/ AddColumn \/ AddChar
    \/ WriterStream \/ ParseStreamed \/ ReadAhead \/ RowsCall

\* The options objects shared by the Writer that streams and the Parser that
\* reads the stream: the default ones, and a blank terminator.
StreamedOptions == {NoOptions, Option("newline", <<>>)}

\* new Writer(options) and new Parser(options) with the same options, for
\* parse(stream(rows, options), options).
InitStreamed ==
    /\ \E o \in StreamedOptions :
         parser = configure(o) /\ writer = configure(o) /\ opts = o
    /\ source = NoSource
    /\ call = "none"
    /\ loc = FreshLocals
    /\ acc = <<>>
    /\ ret = NoReturn
    /\ input = <<>>
    /\ data = Unwritten
    /\ before = writer
    /\ iter = NoIterator
    /\ out = NothingPulled
    /\ seen = NothingSeen
    /\ stream = NoStream

SpecStreamed == InitStreamed /\ [][NextStreamed]_vars

(***************************************************************************)
(* Writer operations: eager and row by row.                                *)
(***************************************************************************)
\* The options object {separator: "", newline: "", quote: ""}.
AllEmptyOptions ==
    [has |-> {"separator", "newline", "quote"},
     val |-> [separator |-> "", newline |-> <<>>, quote |-> ""]]

\* The options objects a Writer is constructed with: the default ones, each
\* of quote, separator and terminator blank, all three blank, quoteAll.
WriterOptions ==
    {NoOptions, Option("quote", ""), Option("separator", ""),
     Option("newline", <<>>), AllEmptyOptions, Option("quoteAll", TRUE)}

\* new Writer(options).
InitWriter ==
    /\ \E o \in WriterOptions : writer = configure(o) /\ opts = o
    /\ parser = configure(NoOptions)
    /\ source = NoSource
    /\ call = "none"
    /\ loc = FreshLocals
    /\ acc = <<>>
    /\ ret = NoReturn
    /\ input = <<>>
    /\ data = Unwritten
    /\ before = writer
    /\ iter = NoIterator
    /\ out = NothingPulled
    /\ seen = NothingSeen
    /\ stream = NoStream

\* data = writer.writeRow(row), row the last row of the caller's array or the
\* missing row.
WriteRow ==
    /\ data.op = "none"
    /\ \E row \in {MissingRow} \cup
                   (IF input = <<>> THEN {} ELSE {ArrayRow(input[Len(input)])}) :
         data' = [op |-> IF row.missing THEN "writeRowMissing" ELSE "writeRow",
                  text |-> writeRowArgument(writer, row)]
    /\ UNCHANGED <<parser, writer, source, call, loc, acc, ret, input,
                   opts, before, iter, out, seen, stream>>

NextWriter == AddRow \/ AddColumn \/ AddChar \/ Write \/ WriteColumn \/ WriteRow

SpecWriter == InitWriter /\ [][NextWriter]_vars

(***************************************************************************)
(* Writer operations through the lazy iterators.                           *)
(***************************************************************************)
\* The options objects of a Writer whose rows are pulled lazily: the default
\* ones, a blank terminator, and blank separator, terminator and quote.
LazyWriterOptions == {NoOptions, Option("newline", <<>>), AllEmptyOptions}

\* new Writer(options), for a caller of Writer.rows or Writer.iterate.
InitLazyWriter ==
    /\ \E o \in LazyWriterOptions : writer = configure(o) /\ opts = o
    /\ parser = configure(NoOptions)
    /\ source = NoSource
    /\ call = "none"
    /\ loc = FreshLocals
    /\ acc = <<>>
    /\ ret = NoReturn
    /\ input = <<>>
    /\ data = Unwritten
    /\ before = writer
    /\ iter = NoIterator
    /\ out = NothingPulled
    /\ seen = NothingSeen
    /\ stream = NoStream

\* iter = writer.rows(input).
WriterRows ==
    /\ data.op = "none"
    /\ data' = [op |-> "rows", text |-> <<>>]
    /\ iter' = WriterRowIterator
    /\ UNCHANGED <<parser, writer, source, call, loc, acc, ret, input,
                   opts, before, out, seen, stream>>

\* iter = writer.iterate(input).
WriterIterate ==
    /\ data.op = "none"
    /\ data' = [op |-> "iterate", text |-> <<>>]
    /\ iter' = WriterCharacterIterator
    /\ UNCHANGED <<parser, writer, source, call, loc, acc, ret, input,
                   opts, before, out, seen, stream>>

\* iter.next() on the row iterator, by a caller that pulls until done.
RowIteratorNext ==
    /\ iter.kind = "rows"
    /\ ~out.done
    /\ LET r == WriterRowIteratorNext(writer, input, iter) IN
       /\ iter' = r.it
       /\ out' = IF r.done THEN [out EXCEPT !.done = TRUE]
                           ELSE [out EXCEPT !.values = Append(@, r.value)]
    /\ UNCHANGED <<parser, writer, source, call, loc, acc, ret, input, data,
                   opts, before, seen, stream>>

\* iter.next() on the character iterator, by a caller that pulls until done.
CharacterIteratorNext ==
    /\ iter.kind = "chars"
    /\ ~out.done
    /\ LET r == WriterCharacterIteratorNext(writer, input, iter) IN
       /\ iter' = r.it
       /\ out' = IF r.done THEN [out EXCEPT !.done = TRUE]
                           ELSE [out EXCEPT !.values = Append(@, r.value)]
    /\ UNCHANGED <<parser, writer, source, call, loc, acc, ret, input, data,
                   opts, before, seen, stream>>

NextLazyWriter ==
    \/ AddRow \/ AddColumn \/ AddChar
    \/ WriterRows \/ RowIteratorNext
    \/ WriterIterate \/ CharacterIteratorNext

SpecLazyWriter == InitLazyWriter /\ [][NextLazyWriter]_vars

(***************************************************************************)
(* The stream of a Writer, read call by read call.                         *)
(***************************************************************************)
\* iter._read(), called by the stream whenever it wants data, as long as it
\* has not ended.
StreamReads ==
    /\ iter.kind = "stream"
    /\ ~iter.ended
    /\ iter' = WriterNodeStreamRead(writer, iter)
    /\ UNCHANGED <<parser, writer, source, call, loc, acc, ret, input, data,
                   opts, before, out, seen, stream>>

NextWriterStream == AddRow \/ AddColumn \/ AddChar \/ WriterStream \/ StreamReads

SpecWriterStream == InitLazyWriter /\ [][NextWriterStream]_vars

(***************************************************************************)
(* Configuring an instance again.                                          *)
(***************************************************************************)
\* A value other than the default and the blank one, for each option.
Alternate(k) ==
    IF k = "separator" THEN "\t"
    ELSE IF k = "newline" THEN <<LF>>
    ELSE IF k = "quote" THEN "'"
    ELSE TRUE

\* The options objects: each key is absent, present with the value undefined,
\* present with the blank value ("" or false), or present with another value.
OptionsObject(c) ==
    [has |-> {k \in OptionKeys : c[k] # "absent"},
     val |-> [k \in {x \in OptionKeys : c[x] \in {"blank", "value"}} |->
                IF c[k] = "blank" THEN Falsy(k) ELSE Alternate(k)]]
OptionsObjects ==
    {OptionsObject(c) : c \in [OptionKeys -> {"absent", "undefined", "blank", "value"}]}

\* new Writer(options): the constructor calls configure(options).
InitConfig ==
    /\ \E o \in OptionsObjects : writer = configure(o) /\ opts = o
    /\ parser = configure(NoOptions)
    /\ source = NoSource
    /\ call = "none"
    /\ loc = FreshLocals
    /\ acc = <<>>
    /\ ret = NoReturn
    /\ input = <<>>
    /\ data = Unwritten
    /\ before = writer
    /\ iter = NoIterator
    /\ out = NothingPulled
    /\ seen = NothingSeen
    /\ stream = NoStream

\* Configure keeping, for a key absent from the options, the field the
\* instance had.
ConfigureMerges ==
    /\ \E o \in OptionsObjects :
         /\ writer' = [k \in OptionKeys |->
                         IF k \in o.has THEN configure(o)[k] ELSE writer[k]]
         /\ opts' = o
    /\ before' = writer
    /\ UNCHANGED <<parser, source, call, loc, acc, ret, input, data, iter, out, seen, stream>>

\* writer.configure(options): the four fields are assigned from the options
\* and the defaults.
Configure ==
    /\ \E o \in OptionsObjects : writer' = configure(o) /\ opts' = o
    /\ before' = writer
    /\ UNCHANGED <<parser, source, call, loc, acc, ret, input, data, iter, out, seen, stream>>

NextConfig == Configure

SpecConfig == InitConfig /\ [][NextConfig]_vars

(***************************************************************************)
(* A Writer and a Parser in use together: every operation of the two, with *)
(* the Writer configured again between any two of them.                    *)
(***************************************************************************)
\* The options objects a Writer in use is configured with again.
ReconfigureOptions == {NoOptions, Option("quoteAll", TRUE), Option("separator", "|")}

\* The stream st of a Writer once the Writer is configured as cfg: the stream
\* holds the Writer itself, not a copy of its fields.
Holding(st, cfg) == IF "writer" \in DOMAIN st THEN [st EXCEPT !.writer = cfg] ELSE st

\* writer.configure(options) with options that change a field, between two
\* operations of the Writer or two pulls of one of its lazy iterators.
Reconfigure ==
    /\ \E o \in ReconfigureOptions :
         /\ configure(o) # writer
         /\ writer' = configure(o)
         /\ opts' = o
         /\ iter' = Holding(iter, configure(o))
         /\ source' = IF source.kind = "stream"
                       THEN [source EXCEPT !.readable = Holding(@, configure(o))]
                       ELSE source
    /\ before' = writer
    /\ UNCHANGED <<parser, call, loc, acc, ret, input, data, out, seen, stream>>

\* parser.parse(data): the text a Writer call returned is attached as a
\* string source, on a parser that has no source yet.
ParseWritten ==
    /\ data.op \in {"write", "writeColumn", "writeRow", "writeRowMissing"}
    /\ source = NoSource
    /\ source' = StringSource(data.text)
    /\ seen' = [NothingSeen EXCEPT !.attached = source']
    /\ ret' = Returned("this", <<>>, FALSE)
    /\ UNCHANGED <<parser, writer, call, loc, acc, input, data, opts, before, iter, out,
                   stream>>

NextInUse ==
    \/ Write \/ WriteColumn \/ WriteRow
    \/ WriterRows \/ RowIteratorNext \/ WriterIterate \/ CharacterIteratorNext
    \/ WriterStream \/ StreamReads
    \/ ParseWritten \/ ParseStreamed \/ NextRowCall \/ NextCall \/ RowsCall
    \/ Reconfigure

\* The arrays of rows the caller of the Writer holds: none, one row without
\* a column, one row of the columns "a" and ",", the rows of one column
\* each, a quote and the empty string, and two rows of one empty-string
\* column each.
InUseRows ==
    {<<>>,
     << <<>> >>,
     << << <<"a">>, <<",">> >> >>,
     << << <<"\"">> >>, << <<>> >> >>,
     << << <<>> >>, << <<>> >> >>}

\* new Writer() and new Parser(), both with the default options, and the
\* caller's array of rows.
InitInUse ==
    /\ parser = configure(NoOptions)
    /\ writer = configure(NoOptions)
    /\ opts = NoOptions
    /\ source = NoSource
    /\ call = "none"
    /\ loc = FreshLocals
    /\ acc = <<>>
    /\ ret = NoReturn
    /\ input \in InUseRows
    /\ data = Unwritten
    /\ before = writer
    /\ iter = NoIterator
    /\ out = NothingPulled
    /\ seen = NothingSeen
    /\ stream = NoStream

SpecInUse == InitInUse /\ [][NextInUse]_vars

(***************************************************************************)
(* Definitions the claims are stated with.                                 *)
(***************************************************************************)
\* The text s with every character q replaced by two characters q.
RECURSIVE Doubled(_, _)
Doubled(s, q) ==
    IF s = <<>> THEN <<>>
    ELSE (IF Head(s) = q THEN <<q, q>> ELSE <<Head(s)>>) \o Doubled(Tail(s), q)

\* The column s has to be quoted under cfg.
MustQuote(cfg, s) ==
    \/ cfg.quoteAll
    \/ \E i \in 1..Len(s) :
         \/ s[i] = cfg.quote
         \/ s[i] = cfg.separator
         \/ s[i] \in {cfg.newline[k] : k \in 1..Len(cfg.newline)}

\* The quoted, quote-doubled form of s.
QuotedForm(cfg, s) == Str(cfg.quote) \o Doubled(s, cfg.quote) \o Str(cfg.quote)

\* The last column of the caller's array.
LastColumn == LET row == input[Len(input)] IN row[Len(row)]

\* The written text has been read back by parse(...).rows().
ReadBackDone == data.op = "write" /\ ret.kind = "rows" /\ ret.first

\* Some row of rs consists of exactly one empty-string column.
HasLoneEmptyColumn(rs) == \E i \in 1..Len(rs) : rs[i] = << <<>> >>

\* Some row of rs ends with a column that is written unquoted under cfg and
\* ends in a carriage return.
HasBareTrailingCR(cfg, rs) ==
    \E i \in 1..Len(rs) :
        /\ rs[i] # <<>>
        /\ LET c == rs[i][Len(rs[i])] IN
           c # <<>> /\ c[Len(c)] = CR /\ ~MustQuote(cfg, c)

\* Some column of rs is written unquoted under cfg and holds a line feed.
HasBareLF(cfg, rs) ==
    \E i \in 1..Len(rs) : \E j \in 1..Len(rs[i]) :
        Contains(rs[i][j], LF) /\ ~MustQuote(cfg, rs[i][j])

(***************************************************************************)
(* C1.  Round trip with the default row terminator.                        *)
(***************************************************************************)
\* C1 as stated: with the default terminator "\r\n" (default configuration,
\* alternate separator, alternate quote), parse(write(rows)).rows() equals
\* rows for every sequence of rows.
C1_RoundTripAllRows ==
    (ReadBackDone /\ writer.newline = <<CR, LF>> /\ ~writer.quoteAll)
        => ret.value = input

\* C1 amended: with the default terminator, parse(write(rows)).rows() equals
\* rows for every sequence of rows in which no row consists of exactly one
\* empty-string column.
C1_RoundTrip ==
    (ReadBackDone /\ writer.newline = <<CR, LF>> /\ ~HasLoneEmptyColumn(input))
        => ret.value = input

\* A round trip of two rows under the alternate quote: a row of a column
\* holding the quote and a line feed and an empty-string column, then a row of
\* no columns.
C1_Witness ==
    /\ ReadBackDone
    /\ writer.quote = "'"
    /\ input = << << <<"'", LF>>, <<>> >>, <<>> >>
    /\ ret.value = input

(***************************************************************************)
(* C2.  Round trip with a non-default row terminator.                      *)
(***************************************************************************)
\* C2 as stated: with the terminator "\n" or the empty terminator,
\* parse(write(rows)).rows() equals rows for every sequence of rows.
C2_RoundTripAllRows ==
    (ReadBackDone /\ writer.newline \in {<<LF>>, <<>>}) => ret.value = input

\* C2 amended: with the terminator "\n" the round trip holds when no row
\* consists of exactly one empty-string column and no row ends with an
\* unquoted column ending in a carriage return; with the empty terminator it
\* holds for the empty sequence, and for a single row that has a column, is
\* not one empty-string column, and has no unquoted column holding a line feed.
C2_RoundTrip ==
    /\ (ReadBackDone /\ writer.newline = <<LF>>
          /\ ~HasLoneEmptyColumn(input) /\ ~HasBareTrailingCR(writer, input))
         => ret.value = input
    /\ (ReadBackDone /\ writer.newline = <<>> /\ Len(input) <= 1
          /\ ~HasLoneEmptyColumn(input) /\ ~HasBareLF(writer, input)
          /\ (input # <<>> => input[1] # <<>>))
         => ret.value = input

\* A round trip under the terminator "\n" of a row whose column holds a
\* carriage return before its end, and an empty row.
C2_Witness ==
    /\ ReadBackDone
    /\ writer.newline = <<LF>>
    /\ input = << << <<CR, "a">>, <<>> >>, <<>> >>
    /\ ret.value = input

(***************************************************************************)
(* C4.  Writer.writeColumn.                                                *)
(***************************************************************************)
\* C4: writeColumn(s) is the quote, s with every quote doubled, the quote,
\* when quoteAll is set or s holds the quote, the separator or a character of
\* the newline string; otherwise it is s.
C4_WriteColumn ==
    data.op = "writeColumn" =>
        data.text = IF MustQuote(writer, LastColumn)
                    THEN QuotedForm(writer, LastColumn)
                    ELSE LastColumn

\* writeColumn has quoted a column that holds the separator and the quote.
C4_Witness ==
    /\ data.op = "writeColumn"
    /\ LastColumn = <<writer.separator, writer.quote>>
    /\ data.text = <<writer.quote, writer.separator, writer.quote, writer.quote,
                     writer.quote>>

(***************************************************************************)
(* C5.  Quote-doubling on parse.                                           *)
(***************************************************************************)
\* C5: for a text t holding the quote character, parsing the quoted,
\* quote-doubled form of t followed by the terminator yields one row whose one
\* column is t.
C5_QuoteDoubling ==
    (/\ ReadBackDone
     /\ Len(input) = 1 /\ Len(input[1]) = 1
     /\ Contains(LastColumn, writer.quote)
     /\ writer.newline # <<>>
     /\ data.text = QuotedForm(writer, LastColumn) \o writer.newline)
        => ret.value = << <<LastColumn>> >>

\* The text of two quote characters was written as six and read back as two.
C5_Witness ==
    /\ ReadBackDone
    /\ input = << << <<writer.quote, writer.quote>> >> >>
    /\ Len(data.text) = 6 + Len(writer.newline)
    /\ writer.newline # <<>>
    /\ ret.value = input

(***************************************************************************)
(* Definitions the claims about the tokenizer are stated with.             *)
(***************************************************************************)
\* The loop of nextRow is about to pull a character that is there.
Consuming == call # "none" /\ source.kind # "none" /\ ~SourceNext(source).done
\* The loop of nextRow is about to find the source exhausted.
Exhausted == call # "none" /\ source.kind # "none" /\ SourceNext(source).done
\* The character about to be pulled.
NextChar == SourceNext(source).value

\* This step returns the row r from nextRow (to rows(), or to the caller).
ReturnsRow(r) ==
    IF call = "rows"
    THEN acc' = Append(acc, r) /\ call' = "rows"
    ELSE ret'.kind = "row" /\ ret'.value = r /\ call' = "none"
\* This step returns some row from nextRow.
ReturnsSomeRow ==
    IF call = "rows" THEN Len(acc') = Len(acc) + 1 ELSE ret'.kind = "row"
\* This step signals end-of-data from nextRow.
ReturnsEnd ==
    IF call = "rows" THEN ret'.kind = "rows" ELSE ret'.kind = "undefined"
\* This step stays in the loop of the same nextRow call.
Continues == call' = call /\ acc' = acc /\ ret' = ret /\ loc'.consumed = loc.consumed + 1

\* rows() was the first call after parse attached a string, and has returned.
FirstRowsOnString == ret.kind = "rows" /\ ret.first /\ source.kind = "string"

\* s is a prefix of t.
IsPrefix(s, t) == Len(s) <= Len(t) /\ SubSeq(t, 1, Len(s)) = s

\* Occurrences of the character c in the text s, and in the columns of rows.
Count(s, c) == Cardinality({i \in 1..Len(s) : s[i] = c})
RECURSIVE CountInRow(_, _)
CountInRow(row, c) ==
    IF row = <<>> THEN 0 ELSE Count(Head(row), c) + CountInRow(Tail(row), c)
RECURSIVE CountInRows(_, _)
CountInRows(rs, c) ==
    IF rs = <<>> THEN 0 ELSE CountInRow(Head(rs), c) + CountInRows(Tail(rs), c)

\* The document d ends inside a quoted span: it holds an odd number of quotes.
EndsQuoted(cfg, d) == Count(d, cfg.quote) % 2 = 1

\* The lines of a document that ends in a line feed: the texts between line
\* feeds, without the carriage return before the line feed.
RECURSIVE LinesFrom(_, _)
LinesFrom(d, line) ==
    IF d = <<>> THEN <<>>
    ELSE IF Head(d) = LF
    THEN <<IF line # <<>> /\ line[Len(line)] = CR
           THEN SubSeq(line, 1, Len(line) - 1) ELSE line>> \o LinesFrom(Tail(d), <<>>)
    ELSE LinesFrom(Tail(d), Append(line, Head(d)))
Lines(d) == LinesFrom(d, <<>>)

\* The columns of a line: the texts between separators.
RECURSIVE ColumnsFrom(_, _, _)
ColumnsFrom(s, sep, column) ==
    IF s = <<>> THEN <<column>>
    ELSE IF Head(s) = sep THEN <<column>> \o ColumnsFrom(Tail(s), sep, <<>>)
    ELSE ColumnsFrom(Tail(s), sep, Append(column, Head(s)))
RowOfLine(line, sep) == IF line = <<>> THEN <<>> ELSE ColumnsFrom(line, sep, <<>>)

\* d is a sequence of lines that hold no CR, LF or quote, each ended by "\n"
\* or by "\r\n".
IsLines(cfg, d) ==
    /\ d # <<>>
    /\ d[Len(d)] = LF
    /\ Count(d, cfg.quote) = 0
    /\ \A i \in 1..Len(d) : d[i] = CR => (i < Len(d) /\ d[i + 1] = LF)

\* The source has nothing to read.
NothingToRead(src) ==
    \/ src.kind = "none"
    \/ src.kind = "string" /\ src.text = <<>>
    \/ src.kind = "stream" /\ ~src.readable.exists

(***************************************************************************)
(* C3.  The parser never raises; a row cut off by exhaustion is returned.  *)
(***************************************************************************)
\* C3: every call of rows() or nextRow() returns, and when the source is
\* exhausted after at least one character of the row was consumed, inside a
\* quoted span or not, the row read so far is returned with its last column.
C3_CompletesAndRecovers ==
    /\ [][(Exhausted /\ loc.consumed > 0)
             => ReturnsRow(Append(loc.row, loc.column))]_vars
    /\ (call = "rows") ~> (call = "none" /\ ret.kind = "rows")
    /\ (call = "nextRow") ~> (call = "none" /\ ret.kind \in {"row", "undefined"})

\* rows() returned the row of a document that ends inside an unclosed quoted
\* span holding a separator.
C3_Witness ==
    /\ FirstRowsOnString
    /\ parser = DefaultOptions
    /\ source.text = <<"a", LF, "\"", ",">>
    /\ ret.value = << <<<<"a">>>>, << <<",">> >> >>

(***************************************************************************)
(* C6.  Separator, CR and LF inside a quoted span.                         *)
(***************************************************************************)
\* C6: a separator, CR or LF consumed inside a quoted span is appended to the
\* column, starts no column and ends no row; a row is returned on a consumed
\* character only outside a quoted span, on a line feed.
C6_QuotedSpanLiteral ==
    [][/\ (Consuming /\ loc.quoted /\ NextChar \in {parser.separator, CR, LF})
            => /\ Continues
               /\ loc' = [loc EXCEPT !.column = Append(@, NextChar),
                                     !.last = NextChar, !.consumed = @ + 1]
       /\ (Consuming /\ ReturnsSomeRow) => (~loc.quoted /\ NextChar = LF)]_vars

\* Inside a quoted span the column holds a separator, a CR and a LF.
C6_Witness ==
    /\ call = "rows"
    /\ loc.quoted
    /\ parser.separator = "|"
    /\ loc.column = <<"|", CR, LF>>
    /\ loc.row = <<>>
    /\ acc = <<>>

(***************************************************************************)
(* C7.  Missing trailing terminator.                                       *)
(***************************************************************************)
\* C7: nextRow signals end-of-data only when the source is exhausted (or
\* missing) with no character of the row consumed; and for a non-empty
\* document d that ends neither in a line feed nor inside a quoted span,
\* parse(d).rows() equals parse(d followed by "\r\n").rows().
C7_MissingTerminator ==
    /\ [][(call # "none" /\ ReturnsEnd)
             => (loc.consumed = 0 /\ (source.kind = "none" \/ Exhausted))]_vars
    /\ [](  (/\ FirstRowsOnString
             /\ source.text # <<>>
             /\ source.text[Len(source.text)] # LF
             /\ ~EndsQuoted(parser, source.text))
          => ret.value = rows(parser, StringSource(source.text \o <<CR, LF>>)).rows)

\* The document "a\r\na" was read as two rows.
C7_Witness ==
    /\ FirstRowsOnString
    /\ source.text = <<"a", CR, LF, "a">>
    /\ ret.value = << <<<<"a">>>>, <<<<"a">>>> >>

(***************************************************************************)
(* C8.  Mixed terminators.                                                 *)
(***************************************************************************)
\* C8: a document of lines that hold no CR, LF or quote, each ended by "\n" or
\* by "\r\n", parses to one row per line, whatever the terminators: no column
\* for an empty line, otherwise the texts between the separators.
C8_MixedTerminators ==
    (FirstRowsOnString /\ IsLines(parser, source.text))
        => ret.value = [i \in 1..Len(Lines(source.text)) |->
                           RowOfLine(Lines(source.text)[i], parser.separator)]

\* A line ended by "\n", then an empty line ended by "\r\n".
C8_Witness ==
    /\ FirstRowsOnString
    /\ source.text = <<"a", LF, CR, LF>>
    /\ ret.value = << <<<<"a">>>>, <<>> >>

(***************************************************************************)
(* C9.  A carriage return not followed by a line feed.                     *)
(***************************************************************************)
\* C9: a carriage return consumed outside a quoted span is appended to the
\* column and does not end the row; a row is returned on a consumed character
\* only on a line feed; a character other than a line feed consumed after that
\* carriage return leaves it in the column (or in the column just pushed); and
\* the columns parsed from a document without quotes hold as many carriage
\* returns as the document holds that are not followed by a line feed.
C9_StrayCR ==
    /\ [][/\ (Consuming /\ ~loc.quoted /\ NextChar = CR)
               => /\ Continues
                  /\ loc'.column = Append(loc.column, CR)
                  /\ loc'.row = loc.row
          /\ (Consuming /\ ReturnsSomeRow) => NextChar = LF
          /\ (Consuming /\ ~loc.quoted /\ loc.last = CR /\ NextChar # LF)
               => /\ Continues
                  /\ \/ IsPrefix(loc.column, loc'.column)
                     \/ loc'.row = Append(loc.row, loc.column)]_vars
    /\ []((FirstRowsOnString /\ Count(source.text, parser.quote) = 0)
            => CountInRows(ret.value, CR) =
                 Cardinality({i \in 1..Len(source.text) :
                    /\ source.text[i] = CR
                    /\ ~(i < Len(source.text) /\ source.text[i + 1] = LF)}))

\* The document "a\ra\n" was read as one row of one column "a\ra".
C9_Witness ==
    /\ FirstRowsOnString
    /\ source.text = <<"a", CR, "a", LF>>
    /\ ret.value = << << <<"a", CR, "a">> >> >>

(***************************************************************************)
(* C10.  A parser with nothing to read.                                    *)
(***************************************************************************)
\* C10: with no source attached, with the empty string as source, and with a
\* NodeStreamSource that has no backing stream, rows() returns the empty list
\* and nextRow() returns no row.
C10_NothingToRead ==
    NothingToRead(source) =>
        /\ ret.kind = "rows" => ret.value = <<>>
        /\ ret.kind # "row"

\* rows() returned the empty list on a NodeStreamSource without a stream.
C10_Witness ==
    /\ source.kind = "stream"
    /\ ~source.readable.exists
    /\ ret.kind = "rows"
    /\ ret.value = <<>>

RECURSIVE Joined(_, _)
Joined(ts, sep) ==
    IF ts = <<>> THEN <<>>
    ELSE IF Len(ts) = 1 THEN ts[1]
    ELSE ts[1] \o Str(sep) \o Joined(Tail(ts), sep)

\* The last row of the caller's array.
LastRow == input[Len(input)]

\* The serialized columns of a row, in order.
Serialized(cfg, row) == [j \in 1..Len(row) |-> writeColumn(cfg, row[j])]

\* s is a suffix of t.
IsSuffix(s, t) == Len(s) <= Len(t) /\ SubSeq(t, Len(t) - Len(s) + 1, Len(t)) = s

(***************************************************************************)
(* C12.  Writer.writeRow.                                                  *)
(***************************************************************************)
\* C12: writeRow(row) is the serialized columns of the row, in order, with the
\* separator between two of them and none before the first or after the last,
\* followed by the newline string; a row of no columns and a missing row are
\* both written as exactly the newline string.
C12_WriteRow ==
    /\ data.op = "writeRow" =>
          /\ data.text = Joined(Serialized(writer, LastRow), writer.separator)
                             \o writer.newline
          /\ LastRow = <<>> => data.text = writer.newline
    /\ data.op = "writeRowMissing" => data.text = writer.newline

\* writeRow wrote a row of three columns, the second one empty, the third one
\* quoted, with two separators between them.
C12_Witness ==
    /\ data.op = "writeRow"
    /\ writer = DefaultOptions
    /\ LastRow = << <<"a">>, <<>>, <<",">> >>
    /\ data.text = <<"a", ",", ",", "\"", ",", "\"", CR, LF>>

(***************************************************************************)
(* C13.  Writer.write.                                                     *)
(***************************************************************************)
\* C13: write(rows) is writeRow of each row, in order, one after the other
\* with nothing before, between or after them, so that every row, the last
\* one included, brings exactly one terminator; write([]) is the empty text
\* and write([[]]) is exactly the terminator.
C13_Write ==
    data.op = "write" =>
        /\ data.text = Concat([i \in 1..Len(input) |-> writeRow(writer, input[i])])
        /\ Len(data.text) =
              Len(Concat([i \in 1..Len(input) |->
                            Joined(Serialized(writer, input[i]), writer.separator)]))
                + Len(input) * Len(writer.newline)
        /\ input # <<>> => IsSuffix(writer.newline, data.text)
        /\ input = <<>> => data.text = <<>>
        /\ input = << <<>> >> => data.text = writer.newline

\* write wrote two rows, the first one of no columns, each with its
\* terminator.
C13_Witness ==
    /\ data.op = "write"
    /\ writer = DefaultOptions
    /\ input = << <<>>, << <<"a">>, <<"a">> >> >>
    /\ data.text = <<CR, LF, "a", ",", "a", CR, LF>>

(***************************************************************************)
(* C14.  The lazy writers against the eager writer.                        *)
(***************************************************************************)
\* C14: the elements pulled from Writer.rows(rows) are writeRow of the rows,
\* one per row and in order, the empty text included, and once the iterator
\* is done there is one for every row and they make up write(rows); the
\* characters pulled from Writer.iterate(rows) are the first characters of
\* write(rows), and all of them once the iterator is done.
C14_LazyWriters ==
    /\ iter.kind = "rows" =>
          /\ Len(out.values) <= Len(input)
          /\ \A i \in 1..Len(out.values) : out.values[i] = writeRow(writer, input[i])
          /\ out.done => /\ Len(out.values) = Len(input)
                         /\ Concat(out.values) = write(writer, input)
    /\ iter.kind = "chars" =>
          /\ IsPrefix(out.values, write(writer, input))
          /\ out.done => out.values = write(writer, input)

\* Under a blank terminator the character iterator went past a row written as
\* the empty text and yielded the row after it.
C14_Witness ==
    /\ iter.kind = "chars"
    /\ out.done
    /\ writer.newline = <<>>
    /\ input = << <<>>, << <<"a">> >> >>
    /\ out.values = <<"a">>

(***************************************************************************)
(* C19.  Writer configurations with a blank quote, separator or terminator.*)
(***************************************************************************)
\* C19: with a blank quote character writeColumn returns every text as it
\* is; with a blank separator writeRow is the serialized columns one after
\* the other, then the terminator; with a blank terminator write(rows) is the
\* rows one after the other, each one its columns joined by the separator,
\* with nothing between two rows.
C19_BlankWriterOptions ==
    /\ (writer.quote = "" /\ data.op = "writeColumn") => data.text = LastColumn
    /\ (writer.separator = "" /\ data.op = "writeRow")
          => data.text = Concat(Serialized(writer, LastRow)) \o writer.newline
    /\ (writer.newline = <<>> /\ data.op = "write")
          => data.text = Concat([i \in 1..Len(input) |->
                                   Joined(Serialized(writer, input[i]),
                                          writer.separator)])

\* Under a blank terminator write wrote a row of two columns, a row of no
\* columns and nothing else.
C19_Witness ==
    /\ data.op = "write"
    /\ opts = Option("newline", <<>>)
    /\ input = << << <<"a">>, <<"a">> >>, <<>> >>
    /\ data.text = <<"a", ",", "a">>

(***************************************************************************)
(* Definitions the claims about the calls of the parser are stated with.   *)
(***************************************************************************)
\* The list rows() returns on the source as parse attached it.
AllRows == rows(parser, seen.attached).rows

\* The source was drained by calls of the method m alone.
DrainedBy(m) == seen.ended /\ seen.via = {m}

\* The last call reported end-of-data: undefined from nextRow, done from
\* next.
ReportsEnd(r) == r.kind \in {"undefined", "done"}

(***************************************************************************)
(* C15.  rows() against draining next() or nextRow().                      *)
(***************************************************************************)
\* C15: on every source and configuration, the values handed out by next()
\* called until it reports done, and the rows handed out by nextRow() called
\* until it returns no row, are the list rows() returns; next() hands out a
\* row, of no columns too, with done false, and reports done with the value
\* [] only at end-of-data.
C15_RowsIsDraining ==
    /\ \A m \in {"next", "nextRow", "rows"} :
          DrainedBy(m) => seen.delivered = AllRows
    /\ ret.kind = "value" =>
          /\ seen.delivered # <<>>
          /\ seen.delivered[Len(seen.delivered)] = ret.value
          /\ IsPrefix(seen.delivered, AllRows)
    /\ ret.kind = "done" => (ret.value = <<>> /\ seen.delivered = AllRows)

\* next() alone drained the document "\na\n": a row of no columns, then the
\* row of "a", then done.
C15_Witness ==
    /\ DrainedBy("next")
    /\ ret.kind = "done"
    /\ seen.attached = StringSource(<<LF, "a", LF>>)
    /\ seen.delivered = << <<>>, << <<"a">> >> >>

(***************************************************************************)
(* C16.  Rows in source order, each one once.                              *)
(***************************************************************************)
\* C16: over a string source and whatever the interleaving of nextRow(),
\* next() and rows(), the rows handed out so far are the first rows of the
\* document, in order, and all of them once end-of-data was reported (for a
\* document of lines without quotes: one row per line, its columns the texts
\* between the separators from left to right); after end-of-data was reported
\* every call reports it again and hands out no row.
C16_SourceOrderOnce ==
    /\ [](seen.attached.kind = "string" =>
            /\ IsPrefix(seen.delivered, AllRows)
            /\ seen.ended => seen.delivered = AllRows
            /\ (seen.ended /\ IsLines(parser, seen.attached.text)) =>
                  seen.delivered =
                    [i \in 1..Len(Lines(seen.attached.text)) |->
                       RowOfLine(Lines(seen.attached.text)[i], parser.separator)])
    /\ [][(seen.attached.kind = "string" /\ seen.ended /\ ret'.kind # "this")
             => /\ seen'.delivered = seen.delivered
                /\ ReportsEnd(ret') \/ (ret'.kind = "rows" /\ ret'.value = <<>>)
                /\ seen'.ended]_vars

\* The three rows of "a\n\na" were handed out by nextRow(), then next(),
\* then rows(), and a later nextRow() returned no row.
C16_Witness ==
    /\ seen.attached = StringSource(<<"a", LF, LF, "a">>)
    /\ seen.via = {"nextRow", "next", "rows"}
    /\ seen.delivered = << << <<"a">> >>, <<>>, << <<"a">> >> >>
    /\ ret.kind = "undefined"

(***************************************************************************)
(* C17.  Configuration resolution.                                         *)
(***************************************************************************)
\* The value configure gives a field whose key is in the options o: the
\* value there, and the blank value when that is undefined.
Supplied(o, k) == IF k \in DOMAIN o.val THEN o.val[k] ELSE Falsy(k)

\* C17: after the constructor or configure was handed the options o, each of
\* separator, newline, quote and quoteAll is the one of o when its key is
\* present in o, also when its value there is undefined, and otherwise the
\* default ",", "\r\n", the double quote, false; an undefined value becomes
\* "" (false for quoteAll), and a blank value that was supplied is kept.
C17_Resolution ==
    /\ writer.separator =
          IF "separator" \in opts.has THEN Supplied(opts, "separator") ELSE ","
    /\ writer.newline =
          IF "newline" \in opts.has THEN Supplied(opts, "newline") ELSE <<CR, LF>>
    /\ writer.quote =
          IF "quote" \in opts.has THEN Supplied(opts, "quote") ELSE "\""
    /\ writer.quoteAll =
          IF "quoteAll" \in opts.has THEN Supplied(opts, "quoteAll") ELSE FALSE
    /\ \A k \in opts.has :
          (k \notin DOMAIN opts.val \/ opts.val[k] = Falsy(k)) => writer[k] = Falsy(k)

\* configure was handed {separator: undefined, newline: ""} on an instance
\* that had other values: separator and newline are blank, quote and
\* quoteAll the defaults.
C17_Witness ==
    /\ opts.has = {"separator", "newline"}
    /\ DOMAIN opts.val = {"newline"}
    /\ opts.val["newline"] = <<>>
    /\ before = [separator |-> "\t", newline |-> <<LF>>, quote |-> "'", quoteAll |-> TRUE]
    /\ writer = [separator |-> "", newline |-> <<>>, quote |-> "\"", quoteAll |-> FALSE]

(***************************************************************************)
(* C18.  configure overwrites the whole configuration.                     *)
(***************************************************************************)
\* C18: whatever the configuration before, after configure(o) the four
\* fields are those of a fresh instance constructed with o, and a second
\* configure(o) leaves them as the first one did.
C18_Overwrites ==
    /\ [](writer = configure(opts))
    /\ [][opts' = opts => writer' = writer]_vars
    /\ [][\A k \in OptionKeys : k \notin opts'.has => writer'[k] = DefaultOptions[k]]_vars

\* An instance with no default field left was configured with {quote: "'"}:
\* the other three fields are the defaults again.
C18_Witness ==
    /\ opts.has = {"quote"}
    /\ before = [separator |-> "\t", newline |-> <<LF>>, quote |-> "", quoteAll |-> TRUE]
    /\ writer = [separator |-> ",", newline |-> <<CR, LF>>, quote |-> "'",
                 quoteAll |-> FALSE]

(***************************************************************************)
(* C20.  A parser with a blank separator or a blank quote.                 *)
(***************************************************************************)
\* The double quote, the quote character of the documents read under a blank
\* quote option.
DoubleQuote == "\""

\* C20: with the separator "" no character starts a column, so that a row
\* has at most one column; with the quote "" no character opens or closes a
\* quoted span, every character other than the separator and the line feed is
\* appended to the column, and the rows read hold as many double quotes as
\* the document.
C20_BlankParserOptions ==
    /\ [](parser.separator = "" =>
            /\ loc.row = <<>>
            /\ \A i \in 1..Len(acc) : Len(acc[i]) <= 1
            /\ ret.kind = "row" => Len(ret.value) <= 1
            /\ ret.kind = "rows" => \A i \in 1..Len(ret.value) : Len(ret.value[i]) <= 1)
    /\ [](parser.quote = "" =>
            /\ ~loc.quoted
            /\ FirstRowsOnString =>
                  CountInRows(ret.value, DoubleQuote) = Count(source.text, DoubleQuote))
    /\ [][(Consuming /\ parser.quote = "" /\ NextChar \notin {parser.separator, LF})
             => /\ Continues
                /\ loc'.column = Append(loc.column, NextChar)
                /\ loc'.row = loc.row]_vars

\* Under the quote "" the document "\",\"\n" was read as one row of two
\* columns, a double quote each.
C20_Witness ==
    /\ FirstRowsOnString
    /\ parser.quote = ""
    /\ source.text = <<DoubleQuote, ",", DoubleQuote, LF>>
    /\ ret.value = << << <<DoubleQuote>>, <<DoubleQuote>> >> >>

(***************************************************************************)
(* C21.  The parser ignores newline and quoteAll.                          *)
(***************************************************************************)
\* The configurations that differ from cfg in newline and quoteAll at most.
Twins(cfg) ==
    {[cfg EXCEPT !.newline = nl, !.quoteAll = qa] :
        nl \in {<<>>, <<LF>>, <<CR, LF>>}, qa \in BOOLEAN}

\* C21: a parser whose configuration differs from this one in newline and
\* quoteAll only returns the same rows on the attached source, and the same
\* row from where the source stands; the rows handed out are those rows; and
\* whatever newline is, a document of lines ended by "\n" or "\r\n" is read
\* as one row per line.
C21_WriteOnlyIgnored ==
    LET mine == rows(parser, seen.attached)
        row == nextRow(parser, source)
    IN  /\ \A twin \in Twins(parser) :
              rows(twin, seen.attached) = mine /\ nextRow(twin, source) = row
        /\ IsPrefix(seen.delivered, mine.rows)
        /\ seen.ended => seen.delivered = mine.rows
        /\ (seen.attached.kind = "string" /\ seen.ended
               /\ IsLines(parser, seen.attached.text)) =>
              seen.delivered =
                [i \in 1..Len(Lines(seen.attached.text)) |->
                   RowOfLine(Lines(seen.attached.text)[i], parser.separator)]

\* A parser configured with the terminator "\n" has read "a\r\na" as the two
\* rows of "a": the carriage return was taken for part of the terminator.
C21_Witness ==
    /\ parser.newline = <<LF>>
    /\ seen.attached = StringSource(<<"a", CR, LF, "a">>)
    /\ seen.ended
    /\ seen.delivered = << << <<"a">> >>, << <<"a">> >> >>

(***************************************************************************)
(* C22.  A stream against its content as a string.                         *)
(***************************************************************************)
\* The complete content of the stream: its chunks, arrived or not, together.
Content == Concat(stream.arrived \o stream.pending)

\* Every chunk has arrived and was read, every character was pulled, and the
\* last call of the parser reported end-of-data.
StreamDrained ==
    /\ source.kind = "stream"
    /\ stream.pending = <<>>
    /\ source.readable.chunks = <<>>
    /\ source.index >= Len(source.buffer)
    /\ ret.kind \in {"undefined", "done", "rows"}

\* C22: whatever the chunks of the stream and whenever they arrive between
\* the calls of the parser, once the stream is drained the rows handed out are
\* the rows of its complete content parsed as a string.
C22_StreamAsString ==
    StreamDrained => seen.delivered = rows(parser, StringSource(Content)).rows

\* The chunk "a" arrived and was read to a row before "\na" arrived: three
\* rows were handed out for the content "a\na", which is two rows as a string.
C22_Witness ==
    /\ StreamDrained
    /\ stream.arrived = << <<"a">>, <<LF, "a">> >>
    /\ seen.delivered = << << <<"a">> >>, <<>>, << <<"a">> >> >>
    /\ rows(parser, StringSource(Content)).rows = << << <<"a">> >>, << <<"a">> >> >>

(***************************************************************************)
(* C23.  Round trip through the stream.                                    *)
(***************************************************************************)
\* The columns of the rows rs are non-empty texts of plain characters.
PlainColumns(cfg, rs) ==
    \A i \in 1..Len(rs) : \A j \in 1..Len(rs[i]) :
        /\ rs[i][j] # <<>>
        /\ \A k \in 1..Len(rs[i][j]) :
              rs[i][j][k] \notin {cfg.separator, cfg.quote, CR, LF}

\* The stream of the caller's rows was attached and read to end-of-data.
StreamReadBack ==
    /\ source.kind = "stream"
    /\ data.op = "stream"
    /\ seen.ended

ReturnedRow == IF call = "rows" THEN acc'[Len(acc')] ELSE ret'.value

\* The characters of the string source this nextRow call has consumed when
\* this step is done: those from where the call started to where the source
\* stands then.
RowConsumed == SubSeq(source.text, source.pos - loc.consumed + 1, source'.pos)

\* This step returns a row that a line feed ended: the step pulled a
\* character, and the call returned.
EndedByLineFeed == ReturnsSomeRow /\ source'.pos = source.pos + 1

(***************************************************************************)
(* C24.  The empty-row rule.                                               *)
(***************************************************************************)
\* The rule of C24 for the row this step returns: no column exactly when the
\* row was ended by a line feed and the call consumed "\n" or "\r\n" and
\* nothing else, and the one column "" when it consumed two quote characters
\* and then the terminator.
EmptyRowRule ==
    (source.kind = "string" /\ ReturnsSomeRow) =>
        /\ ReturnedRow = <<>> <=>
              (EndedByLineFeed /\ RowConsumed \in {<<LF>>, <<CR, LF>>})
        /\ (parser.quote # "" /\ EndedByLineFeed /\ RowConsumed \in
                {<<parser.quote, parser.quote, LF>>,
                 <<parser.quote, parser.quote, CR, LF>>})
              => ReturnedRow = << <<>> >>

\* C24, as stated: the rule holds for every configuration.
C24_EmptyRowAnyConfiguration == [][EmptyRowRule]_vars

\* C24: the rule holds for every configuration whose separator is not the
\* carriage return.
C24_EmptyRow == [][parser.separator # CR => EmptyRowRule]_vars

\* nextRow has returned the one column "" for the document of two quote
\* characters and "\r\n".
C24_Witness ==
    /\ source.kind = "string"
    /\ source.text = <<"\"", "\"", CR, LF>>
    /\ source.pos = 4
    /\ parser.quote = "\""
    /\ ret.kind = "row"
    /\ ret.value = << <<>> >>

(***************************************************************************)
(* C25.  No lookahead.                                                     *)
(***************************************************************************)
\* C25: over a string, every iteration of the loop of nextRow pulls the one
\* character at the position of the source, if there is one, and the source
\* moves by that character only; the iteration that returns a row ended by a
\* line feed has pulled that line feed and nothing after it; entering a call
\* pulls nothing, and every call starts with nothing consumed where the one
\* before stopped: each character is pulled once, by one call.
C25_NoLookahead ==
    [][source.kind = "string" =>
         /\ call # "none" =>
               /\ source'.text = source.text
               /\ source'.pos = IF source.pos < Len(source.text)
                                THEN source.pos + 1 ELSE source.pos
               /\ Continues => loc'.last = source.text[source'.pos]
               /\ EndedByLineFeed => source.text[source'.pos] = LF
               /\ (ReturnsSomeRow \/ ReturnsEnd) => loc'.consumed = 0
         /\ call = "none" => (source' = source /\ loc'.consumed = 0)]_vars

\* nextRow has returned the row of "a" from "a\na\n" and the source stands
\* right after the first line feed.
C25_Witness ==
    /\ source = [StringSource(<<"a", LF, "a", LF>>) EXCEPT !.pos = 2]
    /\ call = "none"
    /\ ret.kind = "row"
    /\ ret.value = << <<"a">> >>

(***************************************************************************)
(* C26.  Only the carriage return of the terminator is removed.            *)
(***************************************************************************)
\* The column buffer without the carriage return at its end, when the
\* character before the line feed was a carriage return.
WithoutTerminatorCR ==
    IF loc.last = CR /\ loc.column # <<>> /\ loc.column[Len(loc.column)] = CR
    THEN SubSeq(loc.column, 1, Len(loc.column) - 1)
    ELSE loc.column

\* The row a line feed ends in this step is made of the columns collected so
\* far and of the column buffer, from which nothing but the carriage return
\* of the terminator was removed (the buffer is left out when the terminator
\* is all the call consumed).
OnlyTerminatorDropped ==
    (source.kind = "string" /\ EndedByLineFeed) =>
        ReturnedRow = IF RowConsumed \in {<<LF>>, <<CR, LF>>}
                      THEN loc.row
                      ELSE Append(loc.row, WithoutTerminatorCR)

\* C26, as stated: for every single-character separator and quote.
C26_OnlyTerminatorDroppedAnyQuote == [][OnlyTerminatorDropped]_vars

\* C26: for every single-character separator, and every quote that is not
\* the carriage return.
C26_OnlyTerminatorDropped == [][parser.quote # CR => OnlyTerminatorDropped]_vars

\* nextRow has returned the row of "a" from "a\r\n": the column buffer "a\r"
\* lost its carriage return.
C26_Witness ==
    /\ source = [StringSource(<<"a", CR, LF>>) EXCEPT !.pos = 3]
    /\ ret.kind = "row"
    /\ ret.value = << <<"a">> >>

(***************************************************************************)
(* Definitions the claims about the NodeStreamSource are stated with.      *)
(***************************************************************************)
\* The characters of the buffer that next() has not returned yet.
Unreturned == SubSeq(source.buffer, source.index + 1, Len(source.buffer))

\* This step is a next() of the NodeStreamSource, not the arrival of a chunk.
Pulls == source.kind = "stream" /\ stream'.pending = stream.pending

\* The last next() called the method m of the stream.
Called(m) == \E i \in 1..Len(stream.calls) : stream.calls[i] = m

(***************************************************************************)
(* C27.  The characters of the chunks, in order, each once.                *)
(***************************************************************************)
\* C27: the chunks read() has returned are the first chunks that arrived at
\* the stream, in order; the characters next() has returned, followed by
\* those of the buffer it has yet to return, are the characters of these
\* chunks, and the buffer is the last of them; and a next() that calls read()
\* starts with every character of the buffer returned.
C27_ChunksInOrderOnce ==
    /\ [](source.kind = "stream" =>
            /\ IsPrefix(stream.obtained, stream.arrived)
            /\ out.values \o Unreturned = Concat(stream.obtained)
            /\ source.buffer = IF stream.obtained = <<>> THEN <<>>
                               ELSE stream.obtained[Len(stream.obtained)])
    /\ [][(Pulls /\ Called("read")') => Unreturned = <<>>]_vars

\* The chunks "a\n" and "\na" were read one after the other and their four
\* characters returned in order; the stream had nothing more and the last
\* next() reported done.
C27_Witness ==
    /\ source.kind = "stream"
    /\ stream.obtained = << <<"a", LF>>, <<LF, "a">> >>
    /\ out.values = <<"a", LF, LF, "a">>
    /\ out.done
    /\ Called("read")

(***************************************************************************)
(* C28.  Backpressure of the NodeStreamSource.                             *)
(***************************************************************************)
\* C28: a next() that calls read() has called pause() first; the stream is
\* paused whenever the buffer holds characters that next() has yet to return;
\* a next() calls resume() exactly when its read() returned no chunk, after
\* the read(), and it reports done then and leaves the stream resumed; and no
\* other next() takes the stream out of its pause.
C28_Backpressure ==
    /\ [](source.kind = "stream" =>
            /\ Unreturned # <<>> => source.readable.paused
            /\ Called("read") =>
                  (stream.calls[1] = "pause" /\ stream.calls[2] = "read")
            /\ Called("resume") =>
                  (stream.calls = <<"pause", "read", "resume">> /\ out.done))
    /\ [][Pulls =>
            /\ Called("resume")' <=>
                  (Called("read")' /\ stream'.obtained = stream.obtained)
            /\ Called("resume")' => (out'.done /\ ~source'.readable.paused)
            /\ (Called("read")' /\ ~Called("resume")') => source'.readable.paused
            /\ ~Called("resume")' =>
                  (source.readable.paused => source'.readable.paused)]_vars

\* Two chunks "a" have arrived and were read, the second by the last next():
\* it called pause() and read(), returned "a", and the stream is paused.
C28_Witness ==
    /\ source.kind = "stream"
    /\ source.eof = FALSE
    /\ source.readable.paused
    /\ stream.arrived = << <<"a">>, <<"a">> >>
    /\ stream.obtained = stream.arrived
    /\ stream.calls = <<"pause", "read">>
    /\ out.values = <<"a", "a">>

(***************************************************************************)
(* C29.  The stream of a Writer serializes on demand.                      *)
(***************************************************************************)
\* C29: the stream has pulled no more rows than _read was called, it was
\* pushed once by each call, and the chunks it was pushed are the serialized
\* rows it has pulled, in order; each _read call pulls the next row and
\* pushes writeRow of it, or, the rows exhausted, pulls nothing and pushes the
\* end-of-stream marker.
C29_OnDemand ==
    /\ [](iter.kind = "stream" =>
            /\ iter.pos <= iter.reads
            /\ Len(iter.pushed) = iter.reads
            /\ \A i \in 1..Len(iter.pushed) :
                  iter.pushed[i] = IF i <= Len(input)
                                   THEN Chunk(writeRow(writer, input[i]))
                                   ELSE EndOfStream
            /\ iter.pos = Cardinality({i \in 1..Len(iter.pushed) : ~iter.pushed[i].null}))
    /\ [][(iter.kind = "stream" /\ iter'.kind = "stream") =>
            /\ iter'.reads \in {iter.reads, iter.reads + 1}
            /\ iter'.reads = iter.reads => iter' = iter
            /\ iter'.reads = iter.reads + 1 =>
                  /\ Len(iter'.pushed) = Len(iter.pushed) + 1
                  /\ IF iter.pos < Len(input)
                     THEN /\ iter'.pos = iter.pos + 1
                          /\ iter'.pushed[Len(iter'.pushed)] =
                                Chunk(writeRow(writer, input[iter.pos + 1]))
                          /\ ~iter'.ended
                     ELSE /\ iter'.pos = iter.pos
                          /\ iter'.pushed[Len(iter'.pushed)] = EndOfStream
                          /\ iter'.ended]_vars

\* The stream of the rows ["a"] and [] was read three times: it was pushed
\* "a\r\n", "\r\n" and the end-of-stream marker.
C29_Witness ==
    /\ iter.kind = "stream"
    /\ input = << << <<"a">> >>, <<>> >>
    /\ iter.reads = 3
    /\ iter.pushed = <<Chunk(<<"a", CR, LF>>), Chunk(<<CR, LF>>), EndOfStream>>
    /\ iter.ended

(***************************************************************************)
(* C30.  The character iterator of a Writer.                               *)
(***************************************************************************)
\* The rows after the first n that the iterator has pulled serialize to the
\* empty string, up to the row m.
EmptyRows(n, m) == \A i \in (n + 1)..m : writeRow(writer, input[i]) = <<>>

\* C30: the values handed out are the first characters of write(rows), one
\* character each; a row serializes to the empty string only under an empty
\* terminator; done is reported only with all the rows pulled, the buffered
\* row returned to its last character and the whole text handed out, and the
\* next call reports done again and leaves the iterator as it is; a call that
\* hands out a character of a new row has pulled that row after skipping only
\* rows that serialize to the empty string, and a call that reports done has
\* skipped only such rows.
C30_CharacterIterator ==
    /\ [](/\ \A i \in 1..Len(input) :
                writeRow(writer, input[i]) = <<>> => writer.newline = <<>>
          /\ iter.kind = "chars" =>
                /\ IsPrefix(out.values, write(writer, input))
                /\ out.done =>
                      /\ iter.pos = Len(input)
                      /\ iter.index >= Len(iter.buffer)
                      /\ out.values = write(writer, input)
                      /\ WriterCharacterIteratorNext(writer, input, iter).done
                      /\ WriterCharacterIteratorNext(writer, input, iter).it = iter)
    /\ [][(iter.kind = "chars" /\ iter'.kind = "chars") =>
            /\ ~out'.done =>
                  /\ Len(out'.values) = Len(out.values) + 1
                  /\ out'.values[Len(out'.values)] = iter'.buffer[iter'.index]
                  /\ iter'.pos # iter.pos =>
                        /\ iter.index >= Len(iter.buffer)
                        /\ EmptyRows(iter.pos, iter'.pos - 1)
                        /\ iter'.buffer = writeRow(writer, input[iter'.pos])
                        /\ iter'.index = 1
            /\ out'.done =>
                  (out'.values = out.values /\ EmptyRows(iter.pos, Len(input)))]_vars

\* With an empty terminator the rows [] and ["a"] were iterated: the first
\* call skipped the first row and handed out "a", the second reported done.
C30_Witness ==
    /\ iter.kind = "chars"
    /\ writer.newline = <<>>
    /\ writer.separator = ","
    /\ input = << <<>>, << <<"a">> >> >>
    /\ out = [values |-> <<"a">>, done |-> TRUE]

(***************************************************************************)
(* C31.  Parsing and writing never change the configuration.               *)
(***************************************************************************)
\* C31: every step of a Writer and a Parser in use (parse, nextRow, next and
\* rows of the Parser; write, writeColumn, writeRow of the Writer, the
\* creation and every pull of its lazy iterators and every _read of its
\* stream) leaves separator, newline, quote and quoteAll of both as they
\* were, unless it is a call of configure.
C31_ConfigurationUnchanged ==
    [][Reconfigure \/ (parser' = parser /\ writer' = writer)]_vars

\* A Writer configured again has written and the Parser has read what it
\* wrote with nextRow, next and rows: the Writer is as configure left it, the
\* Parser as it was constructed.
C31_Witness ==
    /\ data.op = "write"
    /\ data.text # <<>>
    /\ seen.via = {"nextRow", "next", "rows"}
    /\ seen.ended
    /\ writer = configure(Option("quoteAll", TRUE))
    /\ before = configure(NoOptions)
    /\ parser = configure(NoOptions)

(***************************************************************************)
(* C32.  The boundary of the round trip under the default configuration.   *)
(***************************************************************************)
\* The rows rs with every row of exactly one empty-string column replaced by
\* a row of no columns.
WithoutLoneEmptyColumns(rs) ==
    [i \in 1..Len(rs) |-> IF rs[i] = << <<>> >> THEN <<>> ELSE rs[i]]

\* C32: under the default configuration write(rows) is the text of the rows
\* with every row of exactly one empty-string column replaced by a row of no
\* columns (such a row is written as the bare terminator), and
\* parse(write(rows)).rows() is those rows: it equals rows exactly when no row
\* consists of one empty-string column.
C32_RoundTripBoundary ==
    /\ (data.op = "write" /\ writer = configure(NoOptions))
         => /\ data.text = write(writer, WithoutLoneEmptyColumns(input))
            /\ \A i \in 1..Len(input) :
                 input[i] = << <<>> >> =>
                     /\ writeRow(writer, input[i]) = <<CR, LF>>
                     /\ writeRow(writer, input[i]) = writeRow(writer, <<>>)
    /\ (ReadBackDone /\ writer = configure(NoOptions))
         => /\ ret.value = WithoutLoneEmptyColumns(input)
            /\ (ret.value = input <=> ~HasLoneEmptyColumn(input))

\* A round trip under the default configuration of a row of one empty-string
\* column and a row of the column "a": the first comes back without a column.
C32_Witness ==
    /\ ReadBackDone
    /\ writer = configure(NoOptions)
    /\ input = << << <<>> >>, << <<"a">> >> >>
    /\ data.text = <<CR, LF, "a", CR, LF>>
    /\ ret.value = << <<>>, << <<"a">> >> >>

(***************************************************************************)
(* C33.  The round trip with every column quoted.                          *)
(***************************************************************************)
\* C33: with quoteAll set and the other options at their defaults,
\* parse(write(rows)).rows() equals rows for every sequence of rows; a row of
\* exactly one empty-string column is written as two quote characters and the
\* terminator, a row of no columns as the bare terminator.
C33_QuoteAllRoundTrip ==
    /\ (data.op = "write" /\ writer = configure(Option("quoteAll", TRUE)))
         => \A i \in 1..Len(input) :
              /\ input[i] = << <<>> >> =>
                   writeRow(writer, input[i]) = <<DoubleQuote, DoubleQuote, CR, LF>>
              /\ input[i] = <<>> => writeRow(writer, input[i]) = <<CR, LF>>
    /\ (ReadBackDone /\ writer = configure(Option("quoteAll", TRUE)))
         => ret.value = input

\* A round trip with every column quoted of a row of one empty-string column
\* and a row of no columns.
C33_Witness ==
    /\ ReadBackDone
    /\ writer = configure(Option("quoteAll", TRUE))
    /\ input = << << <<>> >>, <<>> >>
    /\ data.text = <<DoubleQuote, DoubleQuote, CR, LF, CR, LF>>
    /\ ret.value = input

(***************************************************************************)
(* C34.  Parsing is compositional at row boundaries.                       *)
(***************************************************************************)
\* Reading the string source src row by row, some nextRow call returns its row
\* on consuming the last character of the text as a line feed that ends the
\* row (a line feed outside a quoted span).
RECURSIVE EndsAtRowBoundary(_, _)
EndsAtRowBoundary(cfg, src) ==
    LET r == nextRow(cfg, src) IN
    IF r.undef THEN FALSE
    ELSE IF r.src.pos = Len(src.text) THEN r.loc.brk
    ELSE EndsAtRowBoundary(cfg, r.src)

\* The first k characters of the attached text, and the rest of it.
Before(k) == SubSeq(source.text, 1, k)
After(k) == SubSeq(source.text, k + 1, Len(source.text))

\* C34: when rows() has read a document from its start, for every way of
\* cutting the document into d1 and d2 where d1 ends with a row-terminating
\* line feed, the rows returned are the rows of parse(d1) followed by the
\* rows of parse(d2).
C34_Compositional ==
    FirstRowsOnString =>
        \A k \in 1..Len(source.text) :
            EndsAtRowBoundary(parser, StringSource(Before(k))) =>
                ret.value = rows(parser, StringSource(Before(k))).rows
                            \o rows(parser, StringSource(After(k))).rows

\* rows() has read a line, a line feed, and a quote opening a span that runs
\* to the end of the text: the document cut after the line feed.
C34_Witness ==
    /\ FirstRowsOnString
    /\ parser = configure(NoOptions)
    /\ source.text = <<"a", LF, DoubleQuote, "a">>
    /\ EndsAtRowBoundary(parser, StringSource(Before(2)))
    /\ ret.value = << << <<"a">> >>, << <<"a">> >> >>

(***************************************************************************)
(* C35.  A lazy writer reads the configuration at each pull.               *)
(***************************************************************************)
\* The step is a pull of the lazy iterator of the given kind.
PullOf(kind) == iter.kind = kind /\ iter'.kind = kind /\ writer' = writer /\ out' # out

\* C35: a call of configure leaves the lazy iterator and what was pulled from
\* it as they are; a pull of the row iterator that is not done hands out the
\* next row serialized under the configuration the Writer has at the pull,
\* after the values pulled before; a pull of the character iterator with
\* characters left of the buffered row hands out the next of them and keeps
\* the buffer, whatever the configuration has become, and a pull that moves
\* on to a row buffers it serialized under the configuration the Writer has
\* at the pull.
C35_ConfigurationAtEachPull ==
    [][/\ (writer' # writer /\ iter.kind \in {"rows", "chars"})
            => (iter' = iter /\ out' = out)
       /\ (PullOf("rows") /\ ~out'.done)
            => /\ iter'.pos = iter.pos + 1
               /\ out'.values = Append(out.values, writeRow(writer, input[iter'.pos]))
       /\ (PullOf("chars") /\ iter.buffer # <<>> /\ iter.index < Len(iter.buffer))
            => /\ iter'.buffer = iter.buffer
               /\ iter'.pos = iter.pos
               /\ out'.values = Append(out.values, iter.buffer[iter.index + 1])
       /\ (PullOf("chars") /\ ~out'.done
              /\ (iter.buffer = <<>> \/ iter.index >= Len(iter.buffer)))
            => /\ iter'.pos > iter.pos
               /\ iter'.buffer = writeRow(writer, input[iter'.pos])
               /\ out'.values = Append(out.values, iter'.buffer[1])
      ]_vars

\* The character iterator has handed out two rows of one empty-string column
\* each, the first as the Writer was constructed (the bare terminator), the
\* second with quoteAll, set by a configure between the pulls (two quotes and
\* the terminator).
C35_Witness ==
    /\ iter.kind = "chars"
    /\ input = << << <<>> >>, << <<>> >> >>
    /\ before = configure(NoOptions)
    /\ writer = configure(Option("quoteAll", TRUE))
    /\ out.values = <<CR, LF, DoubleQuote, DoubleQuote, CR, LF>>
    /\ out.values # write(writer, input)
    /\ out.values # write(before, input)

====
